---------------------------- MODULE Spec2Model ----------------------------
(***************************************************************************)
(* OdontoCare: the appointment service (src/appointment_service/app.py)    *)
(* and the identity service (src/user_service/app.py): its verify routes,  *)
(* which the appointment service calls, its registration and its admin     *)
(* routes.  POST /citas is modelled step by step (validation, the three    *)
(* outbound verify calls, the conflict query, the insert), because other   *)
(* requests can be served between its steps; the other handlers run as one *)
(* database transaction and are one action each.  The command-line client  *)
(* (src/carga_inicial.py) is a process of its own: one action for each     *)
(* iteration of a menu loop.                                               *)
(***************************************************************************)
EXTENDS Integers, Sequences, FiniteSets, TLC

(***************************************************************************)
(* Bounds and input domains                                                *)
(***************************************************************************)

\* Rows the appointment table may hold before no further POST /citas is sent.
MaxCitas == 2

\* Users the identity service holds at most.
MaxUsers == 3

\* Patients, doctors and centers the identity service holds at most.
MaxRegistros == 5

\* per_page of the admin listings when the request gives none
PorPagina == 10

\* status_code of an outbound call that raised (timeout, connection error):
\* verificar_existencia_user_service returns (False, None, str(e)).
SinRespuesta == 0

\* Handler threads of the appointment service that can serve POST /citas.
Solicitudes == {"r1", "r2"}

Claves == {"fecha", "motivo", "id_paciente", "id_doctor", "id_centro"}

\* Values a client sends as "fecha".
Fechas ==
    { "2026-01-20T10:00:00", "2026-01-20T10:00:00Z", "2026-01-21T09:30:00",
      "20/01/2026" }

Motivos == {"Limpieza"}
IdsPaciente == {1, 2}
IdsDoctor == {1, 2, 3}
IdsCentro == {1}

\* Identities carried by the JWTs that callers of the appointment service hold.
Identidades == {2}

\* Complete request bodies of POST /citas.
CuerposCompletos ==
    [ fecha : Fechas, motivo : Motivos, id_paciente : IdsPaciente,
      id_doctor : IdsDoctor, id_centro : IdsCentro ]

Restringir(d, K) == [k \in K |-> d[k]]

\* A body that is complete, from which one key or every key is then dropped.
CuerpoBase ==
    [ fecha |-> "2026-01-20T10:00:00", motivo |-> "Limpieza", id_paciente |-> 1,
      id_doctor |-> 1, id_centro |-> 1 ]

CuerposIncompletos ==
    { Restringir(CuerpoBase, Claves \ {k}) : k \in Claves }
        \cup { Restringir(CuerpoBase, {}) }

Cuerpos == CuerposCompletos \cup CuerposIncompletos

\* Outcomes of an outbound verify call other than the identity service's own
\* answer: it rejects the token (401), something in between forbids the call
\* (403), a server error (500), or no response at all.
Fallos == {401, 403, 500, SinRespuesta}

EstadosEntidad == {"ACTIVO", "INACTIVO"}

(***************************************************************************)
(* State                                                                   *)
(***************************************************************************)

VARIABLES
    citas,       \* table appointment: row i has id i
    users,       \* table user of the identity service
    pacientes,   \* table patient
    doctores,    \* table doctor
    centros,     \* table center
    sol,         \* per handler thread: the POST /citas request it is serving
    resp,        \* response of the last request served by a one-step handler
    canceladas,  \* history: ids for which PUT /citas/{id} has answered 200
    cli          \* the command-line client: menu, token, last output

vars ==
    <<citas, users, pacientes, doctores, centros, sol, resp, canceladas, cli>>

\* The state of the two services.
servicios ==
    <<citas, users, pacientes, doctores, centros, sol, resp, canceladas>>

identidad == <<users, pacientes, doctores, centros>>

\* A thread serving a request holds: pc, the step it is at; usuario_id, data,
\* fecha_dt, the handler's locals; resp, its response once pc = "fin"; and,
\* as history, habia, the number of rows when the request arrived, and
\* llamadas, the outbound calls and database operations it has made so far,
\* each with its result (a verify call's status code, the conflict query's
\* number of rows and the rows the table then held, the id the insert
\* assigned).
Libre == [pc |-> "libre"]

SinResp == [op |-> "ninguna"]

(***************************************************************************)
(* datetime                                                                *)
(***************************************************************************)

\* data["fecha"].replace("Z", "+00:00")
ReplaceZ(s) ==
    IF s = "2026-01-20T10:00:00Z" THEN "2026-01-20T10:00:00+00:00" ELSE s

\* A datetime is its wall-clock time (1: 2026-01-20 10:00:00, 2: 2026-01-21
\* 09:30:00, in time order) and its UTC offset ("" when naive).
\* datetime.fromisoformat: the datetime, or a ValueError (ok = FALSE).
fromisoformat(s) ==
    CASE s = "2026-01-20T10:00:00" ->
            [ok |-> TRUE, wall |-> 1, tz |-> ""]
      [] s = "2026-01-20T10:00:00+00:00" ->
            [ok |-> TRUE, wall |-> 1, tz |-> "+00:00"]
      [] s = "2026-01-21T09:30:00" ->
            [ok |-> TRUE, wall |-> 2, tz |-> ""]
      [] OTHER -> [ok |-> FALSE, wall |-> 0, tz |-> ""]

\* datetime.isoformat()
isoformat(dt) ==
    (IF dt.wall = 1 THEN "2026-01-20T10:00:00" ELSE "2026-01-21T09:30:00")
        \o dt.tz

\* A db.DateTime column holds the wall-clock fields only: the offset of an
\* aware datetime is not stored, and the value read back is naive.
ColumnaDateTime(dt) == [ok |-> TRUE, wall |-> dt.wall, tz |-> ""]

(***************************************************************************)
(* Identity service: verify endpoints                                      *)
(***************************************************************************)

\* Model.query.filter_by(id=..., estado="ACTIVO").first() is not None
ExisteActivo(tabla, id) ==
    id \in DOMAIN tabla /\ tabla[id].estado = "ACTIVO"

\* GET /verify/pacientes/<id> with a token the identity service accepts
verificar_paciente(id) ==
    IF ExisteActivo(pacientes, id)
    THEN [status |-> 200, exists |-> TRUE, id |-> id]
    ELSE [status |-> 404, exists |-> FALSE, error |-> "Paciente no encontrado"]

\* Mutant of verificar_doctor: the query does not filter on estado.
verificar_doctor_sin_estado(id) ==
    IF id \in DOMAIN doctores
    THEN [status |-> 200, exists |-> TRUE, id |-> id]
    ELSE [status |-> 404, exists |-> FALSE, error |-> "Doctor no encontrado"]

\* GET /verify/doctores/<id>
verificar_doctor(id) ==
    IF ExisteActivo(doctores, id)
    THEN [status |-> 200, exists |-> TRUE, id |-> id]
    ELSE [status |-> 404, exists |-> FALSE, error |-> "Doctor no encontrado"]

\* Mutant of verificar_centro: the response carries the whole record.
verificar_centro_con_datos(id) ==
    IF ExisteActivo(centros, id)
    THEN [status |-> 200, exists |-> TRUE, id |-> id,
          nombre |-> centros[id].nombre, direccion |-> centros[id].direccion]
    ELSE [status |-> 404, exists |-> FALSE, error |-> "Centro no encontrado"]

\* GET /verify/centros/<id>
verificar_centro(id) ==
    IF ExisteActivo(centros, id)
    THEN [status |-> 200, exists |-> TRUE, id |-> id]
    ELSE [status |-> 404, exists |-> FALSE, error |-> "Centro no encontrado"]

\* The three verify routes as requests of a client of the identity service:
\* @jwt_required() admits the token of any user, and the handler does not
\* look at the caller, who is therefore no input of the action.
verify_pacientes(id) ==
    /\ resp' = [op |-> "verificar_paciente", clase |-> "pacientes", id |-> id,
                r |-> verificar_paciente(id)]
    /\ UNCHANGED <<cli, citas, identidad, sol, canceladas>>

verify_doctores(id) ==
    /\ resp' = [op |-> "verificar_doctor", clase |-> "doctores", id |-> id,
                r |-> verificar_doctor(id)]
    /\ UNCHANGED <<cli, citas, identidad, sol, canceladas>>

verify_centros(id) ==
    /\ resp' = [op |-> "verificar_centro", clase |-> "centros", id |-> id,
                r |-> verificar_centro(id)]
    /\ UNCHANGED <<cli, citas, identidad, sol, canceladas>>

(***************************************************************************)
(* Identity service: POST /auth/register                                   *)
(***************************************************************************)

\* werkzeug's generate_password_hash, up to the salt
generate_password_hash(password) == <<"hash", password>>

\* data.get(k, default)
Get(data, k, default) == IF k \in DOMAIN data THEN data[k] ELSE default

\* Mutant of UsuarioExiste: the username is not looked up.
UsuarioExiste_no_busca(username) == FALSE

\* User.query.filter_by(username=...).first() is not None
UsuarioExiste(username) ==
    \E i \in DOMAIN users : users[i].username = username

\* Mutant of User: every registered user gets rol "paciente".
User_rol_paciente(data) ==
    [username |-> data.username,
     password |-> generate_password_hash(data.password),
     rol |-> "paciente"]

\* User(username=..., password=hashed, rol=data.get("rol", "paciente"))
User(data) ==
    [username |-> data.username,
     password |-> generate_password_hash(data.password),
     rol |-> Get(data, "rol", "paciente")]

\* POST /auth/register: no token is asked for.  A request that would add a
\* user is served while there are fewer than MaxUsers.
register(data) ==
    /\ Len(users) < MaxUsers
          \/ ~({"username", "password"} \subseteq DOMAIN data)
          \/ UsuarioExiste(data.username)
    /\ IF ~({"username", "password"} \subseteq DOMAIN data)
       THEN /\ resp' = [op |-> "register", data |-> data, status |-> 400,
                        error |-> "Faltan datos requeridos"]
            /\ UNCHANGED users
       ELSE IF UsuarioExiste(data.username)
       THEN /\ resp' = [op |-> "register", data |-> data, status |-> 400,
                        error |-> "El usuario ya existe"]
            /\ UNCHANGED users
       ELSE /\ users' = Append(users, User(data))
            /\ resp' = [op |-> "register", data |-> data, status |-> 201,
                        mensaje |-> "Usuario creado exitosamente",
                        usuario |-> [id |-> Len(users'),
                                     username |-> users'[Len(users')].username,
                                     rol |-> users'[Len(users')].rol]]
    /\ UNCHANGED <<cli, citas, pacientes, doctores, centros, sol, canceladas>>

(***************************************************************************)
(* Identity service: POST /auth/login and the tokens                       *)
(***************************************************************************)

\* Mutant of check_password_hash: any password matches.
check_password_hash_siempre(hash, password) == TRUE

\* werkzeug's check_password_hash
check_password_hash(hash, password) == hash = generate_password_hash(password)

\* str(n) and int(s) for the ids, which have one digit
Digitos == <<"1", "2", "3", "4", "5", "6", "7", "8", "9">>

Str(n) == Digitos[n]

ToInt(s) == CHOOSE n \in DOMAIN Digitos : Digitos[n] = s

\* flask_jwt_extended: the token carries the identity it was created with,
\* and get_jwt_identity() gives it back.
create_access_token(identity) == [sub |-> identity]

get_jwt_identity(token) == token.sub

\* User.query.filter_by(username=...).first(): the id of the user, 0 if none
UsuarioPorNombre(username) ==
    IF UsuarioExiste(username)
    THEN CHOOSE i \in DOMAIN users : users[i].username = username
    ELSE 0

\* POST /auth/login
login(data) ==
    /\ resp' =
         IF ~({"username", "password"} \subseteq DOMAIN data)
         THEN [op |-> "login", data |-> data, status |-> 400,
               error |-> "Faltan datos requeridos"]
         ELSE LET id == UsuarioPorNombre(data.username)
              IN  IF id = 0
                     \/ ~check_password_hash(users[id].password, data.password)
                  THEN [op |-> "login", data |-> data, status |-> 401,
                        error |-> "Credenciales inválidas"]
                  ELSE [op |-> "login", data |-> data, status |-> 200,
                        mensaje |-> "Login exitoso",
                        access_token |-> create_access_token(Str(id)),
                        usuario |-> [id |-> id,
                                     username |-> users[id].username,
                                     rol |-> users[id].rol]]
    /\ UNCHANGED <<cli, citas, identidad, sol, canceladas>>

\* GET /verify/token with a token that jwt_required() lets through
verificar_token(token) ==
    /\ resp' =
         LET user_id == get_jwt_identity(token)
         IN  IF ToInt(user_id) \notin DOMAIN users
             THEN [op |-> "verificar_token", token |-> token, status |-> 404,
                   valid |-> FALSE, error |-> "Usuario no encontrado"]
             ELSE [op |-> "verificar_token", token |-> token, status |-> 200,
                   valid |-> TRUE,
                   user_id |-> ToInt(user_id),
                   username |-> users[ToInt(user_id)].username,
                   rol |-> users[ToInt(user_id)].rol]
    /\ UNCHANGED <<cli, citas, identidad, sol, canceladas>>

(***************************************************************************)
(* Identity service: admin endpoints                                       *)
(***************************************************************************)

\* Mutant of require_admin: any existing user passes.
require_admin_sin_rol(uid) == uid \in DOMAIN users

\* require_admin(): the token's user exists and has rol "admin".
require_admin(uid) ==
    uid \in DOMAIN users /\ users[uid].rol = "admin"

\* The three kinds of record: the JSON key of one record, the name in the
\* messages, and the column each kind has besides nombre and estado.
Clases == {"pacientes", "doctores", "centros"}

Singular(clase) ==
    CASE clase = "pacientes" -> "paciente"
      [] clase = "doctores" -> "doctor"
      [] clase = "centros" -> "centro"

Titulo(clase) ==
    CASE clase = "pacientes" -> "Paciente"
      [] clase = "doctores" -> "Doctor"
      [] clase = "centros" -> "Centro"

Detalle(clase) ==
    CASE clase = "pacientes" -> "telefono"
      [] clase = "doctores" -> "especialidad"
      [] clase = "centros" -> "direccion"

\* {"id": r.id, "nombre": r.nombre, "<detalle>": ..., "estado": r.estado}
RegistroJson(clase, tabla, id) ==
    [k \in {"id", "nombre", Detalle(clase), "estado"} |->
        IF k = "id" THEN id ELSE tabla[id][k]]

\* The request a response answers, and its status; the body is added to it.
Peticion(op, clase, uid, status) ==
    [op |-> op, clase |-> clase, uid |-> uid, status |-> status]

\* f with the fields of g added
Con(f, g) ==
    [k \in DOMAIN f \cup DOMAIN g |-> IF k \in DOMAIN g THEN g[k] ELSE f[k]]

NoAutorizado == [error |-> "No autorizado"]

NoEncontrado(clase) == [error |-> Titulo(clase) \o " no encontrado"]

\* Status of GET, PUT and DELETE on /admin/<clase>/<id>.
StatusAdmin(tabla, id, uid) ==
    IF ~require_admin(uid) THEN 403
    ELSE IF id \notin DOMAIN tabla THEN 404
    ELSE 200

\* Body of the 403 and 404 responses of GET, PUT and DELETE on
\* /admin/<clase>/<id>.
ErrorAdmin(clase, tabla, id, uid) ==
    IF StatusAdmin(tabla, id, uid) = 403 THEN NoAutorizado
    ELSE NoEncontrado(clase)

\* POST /admin/<clase>: the table after the request.
Crear(clase, tabla, uid, data) ==
    IF require_admin(uid) /\ "nombre" \in DOMAIN data
    THEN Append(tabla,
           [k \in {"nombre", Detalle(clase), "estado"} |->
              IF k = "nombre" THEN data.nombre
              ELSE IF k = "estado" THEN Get(data, "estado", "ACTIVO")
              ELSE Get(data, Detalle(clase), "")])
    ELSE tabla

\* POST /admin/<clase>: the response; nueva is the table after the request.
RespCrear(op, clase, nueva, uid, data) ==
    IF ~require_admin(uid)
    THEN Con(Peticion(op, clase, uid, 403),
             [data |-> data, error |-> "No autorizado"])
    ELSE IF "nombre" \notin DOMAIN data
    THEN Con(Peticion(op, clase, uid, 400),
             [data |-> data, error |-> "Faltan datos requeridos"])
    ELSE Con(Peticion(op, clase, uid, 201),
             [k \in {"data", "mensaje", Singular(clase)} |->
                IF k = "data" THEN data
                ELSE IF k = "mensaje"
                THEN Titulo(clase) \o " creado exitosamente"
                ELSE RegistroJson(clase, nueva, Len(nueva))])

\* Query parameters of GET /admin/<clase>: a function whose domain is the set
\* of parameters the request supplies.
SinArgs == [k \in {} |-> ""]

\* Mutant of FiltrarEstado: the listing does not filter on estado.
FiltrarEstado_todos(tabla, estado) == [i \in 1 .. Len(tabla) |-> i]

\* query.filter_by(estado=estado) when "if estado:" holds, ordered by id: the
\* ids of the rows selected.
FiltrarEstado(tabla, estado) ==
    SelectSeq([i \in 1 .. Len(tabla) |-> i],
              LAMBDA i : estado = "" \/ tabla[i].estado = estado)

Min(a, b) == IF a < b THEN a ELSE b

Max(a, b) == IF a > b THEN a ELSE b

\* paginate_query and build_meta: page and per_page default to 1 and
\* PorPagina, per_page is kept within 1 .. 100, and a page past the end is
\* empty (error_out=False).
paginate_query(ids, args) ==
    LET page == Max(Get(args, "page", 1), 1)
        per_page == Min(Max(Get(args, "per_page", PorPagina), 1), 100)
        total == Len(ids)
    IN  [items |-> SubSeq(ids, (page - 1) * per_page + 1,
                          Min(page * per_page, total)),
         meta |-> [page |-> page, per_page |-> per_page, total |-> total,
                   pages |-> (total + per_page - 1) \div per_page]]

\* GET /admin/<clase>: estado defaults to "ACTIVO".
RespListar(op, clase, tabla, uid, args) ==
    IF ~require_admin(uid)
    THEN Con(Peticion(op, clase, uid, 403),
             [args |-> args, error |-> "No autorizado"])
    ELSE LET pagination ==
                paginate_query(
                    FiltrarEstado(tabla, Get(args, "estado", "ACTIVO")), args)
         IN  Con(Peticion(op, clase, uid, 200),
                 [k \in {"args", clase, "meta"} |->
                    IF k = "args" THEN args
                    ELSE IF k = "meta" THEN pagination.meta
                    ELSE [n \in DOMAIN pagination.items |->
                            RegistroJson(clase, tabla, pagination.items[n])]])

\* GET /admin/<clase>/<id>
RespObtener(op, clase, tabla, id, uid) ==
    IF StatusAdmin(tabla, id, uid) = 200
    THEN Con(Peticion(op, clase, uid, 200),
             [k \in {"id", Singular(clase)} |->
                IF k = "id" THEN id ELSE RegistroJson(clase, tabla, id)])
    ELSE Con(Peticion(op, clase, uid, StatusAdmin(tabla, id, uid)),
             Con([id |-> id], ErrorAdmin(clase, tabla, id, uid)))

\* Mutant of Inactivar: the row is deleted from the table.
Inactivar_borra(tabla, id, uid) ==
    IF StatusAdmin(tabla, id, uid) = 200
    THEN SubSeq(tabla, 1, id - 1) \o SubSeq(tabla, id + 1, Len(tabla))
    ELSE tabla

\* <row>.estado = "INACTIVO"; db.session.commit()
Inactivar(tabla, id, uid) ==
    IF StatusAdmin(tabla, id, uid) = 200
    THEN [tabla EXCEPT ![id].estado = "INACTIVO"]
    ELSE tabla

\* DELETE /admin/<clase>/<id>: the response.
RespEliminar(op, clase, tabla, id, uid) ==
    IF StatusAdmin(tabla, id, uid) = 200
    THEN Con(Peticion(op, clase, uid, 200),
             [id |-> id,
              mensaje |-> Titulo(clase) \o " inactivado exitosamente"])
    ELSE Con(Peticion(op, clase, uid, StatusAdmin(tabla, id, uid)),
             Con([id |-> id], ErrorAdmin(clase, tabla, id, uid)))

\* Mutant of Actualizar: the row is replaced whole, a field the body lacks
\* becomes empty.
Actualizar_reemplaza(tabla, id, uid, data, detalle) ==
    IF StatusAdmin(tabla, id, uid) = 200
    THEN [tabla EXCEPT
            ![id].nombre = Get(data, "nombre", ""),
            ![id][detalle] = Get(data, detalle, ""),
            ![id].estado = Get(data, "estado", "")]
    ELSE tabla

\* <row>.nombre = data.get("nombre", <row>.nombre); ...; db.session.commit()
Actualizar(tabla, id, uid, data, detalle) ==
    IF StatusAdmin(tabla, id, uid) = 200
    THEN [tabla EXCEPT
            ![id].nombre = Get(data, "nombre", @),
            ![id][detalle] = Get(data, detalle, @),
            ![id].estado = Get(data, "estado", @)]
    ELSE tabla

\* PUT /admin/<clase>/<id>: the response; nueva is the table after the
\* request.
RespActualizar(op, clase, nueva, id, uid, data) ==
    IF StatusAdmin(nueva, id, uid) = 200
    THEN Con(Peticion(op, clase, uid, 200),
             [k \in {"id", "data", "mensaje", Singular(clase)} |->
                IF k = "id" THEN id
                ELSE IF k = "data" THEN data
                ELSE IF k = "mensaje"
                THEN Titulo(clase) \o " actualizado exitosamente"
                ELSE RegistroJson(clase, nueva, id)])
    ELSE Con(Peticion(op, clase, uid, StatusAdmin(nueva, id, uid)),
             Con([id |-> id, data |-> data], ErrorAdmin(clase, nueva, id, uid)))

\* The response goes to the client that made the request.  resp holds the
\* responses of one client, the one under observation: when the request was
\* another client's (observado is FALSE) the response is not recorded.
Responder(observado, r) == resp' = IF observado THEN r ELSE resp

\* Rows of the three tables together; POST /admin/<clase> is served while
\* there are fewer than MaxRegistros.
Registros == Len(pacientes) + Len(doctores) + Len(centros)

crear_paciente(uid, data) ==
    /\ Registros < MaxRegistros
    /\ pacientes' = Crear("pacientes", pacientes, uid, data)
    /\ resp' = RespCrear("crear_paciente", "pacientes", pacientes', uid, data)
    /\ UNCHANGED <<cli, citas, users, doctores, centros, sol, canceladas>>

listar_pacientes(uid, args) ==
    /\ resp' = RespListar("listar_pacientes", "pacientes", pacientes, uid, args)
    /\ UNCHANGED <<cli, citas, identidad, sol, canceladas>>

obtener_paciente(id, uid) ==
    /\ resp' = RespObtener("obtener_paciente", "pacientes", pacientes, id, uid)
    /\ UNCHANGED <<cli, citas, identidad, sol, canceladas>>

actualizar_paciente(id, uid, data, observado) ==
    /\ pacientes' = Actualizar(pacientes, id, uid, data, "telefono")
    /\ Responder(observado,
            RespActualizar("actualizar_paciente", "pacientes", pacientes', id, uid,
                           data))
    /\ UNCHANGED <<cli, citas, users, doctores, centros, sol, canceladas>>

eliminar_paciente(id, uid, observado) ==
    /\ pacientes' = Inactivar(pacientes, id, uid)
    /\ Responder(observado,
            RespEliminar("eliminar_paciente", "pacientes", pacientes, id, uid))
    /\ UNCHANGED <<cli, citas, users, doctores, centros, sol, canceladas>>

crear_doctor(uid, data) ==
    /\ Registros < MaxRegistros
    /\ doctores' = Crear("doctores", doctores, uid, data)
    /\ resp' = RespCrear("crear_doctor", "doctores", doctores', uid, data)
    /\ UNCHANGED <<cli, citas, users, pacientes, centros, sol, canceladas>>

listar_doctores(uid, args) ==
    /\ resp' = RespListar("listar_doctores", "doctores", doctores, uid, args)
    /\ UNCHANGED <<cli, citas, identidad, sol, canceladas>>

obtener_doctor(id, uid) ==
    /\ resp' = RespObtener("obtener_doctor", "doctores", doctores, id, uid)
    /\ UNCHANGED <<cli, citas, identidad, sol, canceladas>>

actualizar_doctor(id, uid, data, observado) ==
    /\ doctores' = Actualizar(doctores, id, uid, data, "especialidad")
    /\ Responder(observado,
            RespActualizar("actualizar_doctor", "doctores", doctores', id, uid,
                           data))
    /\ UNCHANGED <<cli, citas, users, pacientes, centros, sol, canceladas>>

\* Mutant of eliminar_doctor: the soft delete also cancels the doctor's
\* appointments.
eliminar_doctor_cascada(id, uid, observado) ==
    /\ doctores' = Inactivar(doctores, id, uid)
    /\ citas' = [i \in DOMAIN citas |->
                   IF citas[i].id_doctor = id
                   THEN [citas[i] EXCEPT !.estado = "CANCELADA"]
                   ELSE citas[i]]
    /\ Responder(observado,
            RespEliminar("eliminar_doctor", "doctores", doctores, id, uid))
    /\ UNCHANGED <<cli, users, pacientes, centros, sol, canceladas>>

eliminar_doctor(id, uid, observado) ==
    /\ doctores' = Inactivar(doctores, id, uid)
    /\ Responder(observado,
            RespEliminar("eliminar_doctor", "doctores", doctores, id, uid))
    /\ UNCHANGED <<cli, citas, users, pacientes, centros, sol, canceladas>>

crear_centro(uid, data) ==
    /\ Registros < MaxRegistros
    /\ centros' = Crear("centros", centros, uid, data)
    /\ resp' = RespCrear("crear_centro", "centros", centros', uid, data)
    /\ UNCHANGED <<cli, citas, users, pacientes, doctores, sol, canceladas>>

listar_centros(uid, args) ==
    /\ resp' = RespListar("listar_centros", "centros", centros, uid, args)
    /\ UNCHANGED <<cli, citas, identidad, sol, canceladas>>

obtener_centro(id, uid) ==
    /\ resp' = RespObtener("obtener_centro", "centros", centros, id, uid)
    /\ UNCHANGED <<cli, citas, identidad, sol, canceladas>>

actualizar_centro(id, uid, data, observado) ==
    /\ centros' = Actualizar(centros, id, uid, data, "direccion")
    /\ Responder(observado,
            RespActualizar("actualizar_centro", "centros", centros', id, uid,
                           data))
    /\ UNCHANGED <<cli, citas, users, pacientes, doctores, sol, canceladas>>

eliminar_centro(id, uid, observado) ==
    /\ centros' = Inactivar(centros, id, uid)
    /\ Responder(observado,
            RespEliminar("eliminar_centro", "centros", centros, id, uid))
    /\ UNCHANGED <<cli, citas, users, pacientes, doctores, sol, canceladas>>

(***************************************************************************)
(* Appointment service: POST /citas                                        *)
(***************************************************************************)

\* POST /citas requests being served (received, response not yet delivered).
EnCurso == {s \in Solicitudes : sol[s].pc # "libre"}

\* Mutant of FaltanDatos: the list of required keys lacks "id_centro".
FaltanDatos_sin_centro(data) ==
    DOMAIN data = {} \/ ~((Claves \ {"id_centro"}) \subseteq DOMAIN data)

\* not data or not all(k in data for k in [...])
FaltanDatos(data) == DOMAIN data = {} \/ ~(Claves \subseteq DOMAIN data)

\* Lines 93-111: get_jwt_identity(), the body's validation and the parse of
\* "fecha".  Nothing outside the request is read or written.
crear_cita(s, usuario_id, data) ==
    /\ sol[s].pc = "libre"
    /\ Len(citas) + Cardinality(EnCurso) < MaxCitas
    /\ LET nueva == [pc |-> "verificar_paciente", usuario_id |-> usuario_id,
                     data |-> data, fecha_dt |-> fromisoformat(""),
                     habia |-> Len(citas), llamadas |-> <<>>,
                     resp |-> SinResp]
           recibida == [sol EXCEPT ![s] = nueva]
       IN  sol' =
             IF FaltanDatos(data)
             THEN [recibida EXCEPT ![s].pc = "fin",
                     ![s].resp = [status |-> 400,
                                  error |-> "Faltan datos requeridos"]]
             ELSE IF ~fromisoformat(ReplaceZ(data.fecha)).ok
             THEN [recibida EXCEPT ![s].pc = "fin",
                     ![s].resp = [status |-> 400,
                                  error |-> "Formato de fecha inválido"]]
             ELSE [recibida EXCEPT
                     ![s].fecha_dt = fromisoformat(ReplaceZ(data.fecha))]
    /\ resp' = SinResp
    /\ UNCHANGED <<cli, citas, identidad, canceladas>>

\* verificar_existencia_user_service: (ok, status_code) of one GET, which is
\* the endpoint's answer or one of Fallos; no retry.
verificar_existencia_user_service(status) ==
    [ok |-> status = 200, status |-> status]

\* Mutant of RespuestaNoVerificado: every failed verification is answered 400.
RespuestaNoVerificado_siempre_400(entidad, status) ==
    [status |-> 400,
     error |-> "El " \o entidad \o " no existe o está inactivo",
     user_service_status |-> status]

\* "if not ok:" after a verify call: the response that ends the request.
RespuestaNoVerificado(entidad, status) ==
    IF status \in {401, 403}
    THEN [status |-> status,
          error |-> "No autorizado para verificar " \o entidad,
          user_service_status |-> status]
    ELSE [status |-> 400,
          error |-> "El " \o entidad \o " no existe o está inactivo",
          user_service_status |-> status]

\* Mutant of PasoVerificar: the "return" of the 400 branch is missing, so
\* after a failure that is neither 401 nor 403 the handler goes on.
PasoVerificar_continua(s, paso, entidad, status, siguiente) ==
    /\ sol[s].pc = paso
    /\ LET v == verificar_existencia_user_service(status)
           llamada == [sol EXCEPT ![s].llamadas =
                          Append(@, [paso |-> paso, resultado |-> v.status])]
       IN  sol' =
             IF v.ok \/ v.status \notin {401, 403}
             THEN [llamada EXCEPT ![s].pc = siguiente]
             ELSE [llamada EXCEPT ![s].pc = "fin",
                     ![s].resp = RespuestaNoVerificado(entidad, v.status)]
    /\ UNCHANGED <<cli, citas, identidad, resp, canceladas>>

\* Mutant of PasoVerificar: a call that got no response is made again.
PasoVerificar_reintenta(s, paso, entidad, status, siguiente) ==
    /\ sol[s].pc = paso
    /\ LET v == verificar_existencia_user_service(status)
           llamada == [sol EXCEPT ![s].llamadas =
                          Append(@, [paso |-> paso, resultado |-> v.status])]
       IN  sol' =
             IF v.ok
             THEN [llamada EXCEPT ![s].pc = siguiente]
             ELSE IF v.status = SinRespuesta /\ sol[s].llamadas = <<>>
             THEN llamada
             ELSE [llamada EXCEPT ![s].pc = "fin",
                     ![s].resp = RespuestaNoVerificado(entidad, v.status)]
    /\ UNCHANGED <<cli, citas, identidad, resp, canceladas>>

\* One verify call of crear_cita and the branch on its result.
PasoVerificar(s, paso, entidad, status, siguiente) ==
    /\ sol[s].pc = paso
    /\ LET v == verificar_existencia_user_service(status)
           llamada == [sol EXCEPT ![s].llamadas =
                          Append(@, [paso |-> paso, resultado |-> v.status])]
       IN  sol' =
             IF v.ok
             THEN [llamada EXCEPT ![s].pc = siguiente]
             ELSE [llamada EXCEPT ![s].pc = "fin",
                     ![s].resp = RespuestaNoVerificado(entidad, v.status)]
    /\ UNCHANGED <<cli, citas, identidad, resp, canceladas>>

\* What a verify call can come back with: the endpoint's answer or a failure.
Resultados(respuesta) == {respuesta.status} \cup Fallos

\* Lines 113-138
crear_cita_verificar_paciente(s) ==
    /\ sol[s].pc = "verificar_paciente"
    /\ \E status \in Resultados(verificar_paciente(sol[s].data.id_paciente)) :
          PasoVerificar(s, "verificar_paciente", "paciente", status,
                        "verificar_doctor")

\* Lines 140-165
crear_cita_verificar_doctor(s) ==
    /\ sol[s].pc = "verificar_doctor"
    /\ \E status \in Resultados(verificar_doctor(sol[s].data.id_doctor)) :
          PasoVerificar(s, "verificar_doctor", "doctor", status,
                        "verificar_centro")

\* Lines 167-192
crear_cita_verificar_centro(s) ==
    /\ sol[s].pc = "verificar_centro"
    /\ \E status \in Resultados(verificar_centro(sol[s].data.id_centro)) :
          PasoVerificar(s, "verificar_centro", "centro", status, "consulta")

\* Mutant of cita_conflicto: the timestamp is compared as parsed, its UTC
\* offset included, with what the column holds.
cita_conflicto_sin_convertir(tabla, id_doctor, fecha_dt) ==
    \E i \in DOMAIN tabla :
        /\ tabla[i].id_doctor = id_doctor
        /\ tabla[i].fecha = fecha_dt
        /\ tabla[i].estado = "PROGRAMADA"

\* Mutant of cita_conflicto: the query does not filter on estado and looks
\* for the doctor's cancelled appointments.
cita_conflicto_canceladas(tabla, id_doctor, fecha_dt) ==
    \E i \in DOMAIN tabla :
        /\ tabla[i].id_doctor = id_doctor
        /\ tabla[i].fecha = ColumnaDateTime(fecha_dt)
        /\ tabla[i].estado = "CANCELADA"

\* Appointment.query.filter_by(id_doctor=..., fecha=fecha_dt,
\*                             estado="PROGRAMADA").first() is not None
cita_conflicto(tabla, id_doctor, fecha_dt) ==
    \E i \in DOMAIN tabla :
        /\ tabla[i].id_doctor = id_doctor
        /\ tabla[i].fecha = ColumnaDateTime(fecha_dt)
        /\ tabla[i].estado = "PROGRAMADA"

\* Lines 194-204: the conflict query and the rejection
crear_cita_consulta(s) ==
    /\ sol[s].pc = "consulta"
    /\ LET hay == cita_conflicto(citas, sol[s].data.id_doctor, sol[s].fecha_dt)
           consultada ==
              [sol EXCEPT ![s].llamadas =
                 Append(@, [paso |-> "consulta",
                            resultado |-> IF hay THEN 1 ELSE 0,
                            filas |-> Len(citas)])]
       IN  sol' =
             IF hay
             THEN [consultada EXCEPT ![s].pc = "fin",
                     ![s].resp =
                        [status |-> 400,
                         error |-> "El doctor ya tiene una cita programada en esa fecha y hora"]]
             ELSE [consultada EXCEPT ![s].pc = "insertar"]
    /\ UNCHANGED <<cli, citas, identidad, resp, canceladas>>

\* Mutant of Appointment: id_usuario_registra is taken from the body's
\* id_paciente instead of the token's identity.
Appointment_registra_paciente(id, data, fecha_dt, usuario_id) ==
    [ id |-> id,
      fecha |-> ColumnaDateTime(fecha_dt),
      motivo |-> data.motivo,
      estado |-> "PROGRAMADA",
      id_paciente |-> data.id_paciente,
      id_doctor |-> data.id_doctor,
      id_centro |-> data.id_centro,
      id_usuario_registra |-> data.id_paciente ]

\* Appointment(fecha=..., ...) as the table holds it after the commit: the next
\* id, estado by the column's default.
Appointment(id, data, fecha_dt, usuario_id) ==
    [ id |-> id,
      fecha |-> ColumnaDateTime(fecha_dt),
      motivo |-> data.motivo,
      estado |-> "PROGRAMADA",
      id_paciente |-> data.id_paciente,
      id_doctor |-> data.id_doctor,
      id_centro |-> data.id_centro,
      id_usuario_registra |-> usuario_id ]

\* The "cita" object of the responses of POST /citas, GET /citas and
\* GET /citas/<id>
CitaJson(c) ==
    [ id |-> c.id, fecha |-> isoformat(c.fecha), motivo |-> c.motivo,
      estado |-> c.estado, id_paciente |-> c.id_paciente,
      id_doctor |-> c.id_doctor, id_centro |-> c.id_centro ]

\* History of the insert: which of the entities the request names the
\* identity service holds as ACTIVO at the moment of the commit.
Activos(data) ==
    [paciente |-> ExisteActivo(pacientes, data.id_paciente),
     doctor |-> ExisteActivo(doctores, data.id_doctor),
     centro |-> ExisteActivo(centros, data.id_centro)]

\* Mutant of crear_cita_insertar: the entities are verified again in the
\* transaction of the insert, which is abandoned if one is not ACTIVO.
crear_cita_insertar_reverifica(s) ==
    /\ sol[s].pc = "insertar"
    /\ LET nueva_cita == Appointment(Len(citas) + 1, sol[s].data,
                                     sol[s].fecha_dt, sol[s].usuario_id)
           falta == FALSE \in {Activos(sol[s].data)[k] :
                                  k \in {"paciente", "doctor", "centro"}}
       IN  /\ citas' = IF falta THEN citas ELSE Append(citas, nueva_cita)
           /\ sol' = [sol EXCEPT
                        ![s].pc = "fin",
                        ![s].llamadas =
                           Append(@, [paso |-> "insertar",
                                      resultado |->
                                        IF falta THEN 0 ELSE nueva_cita.id,
                                      activos |-> Activos(sol[s].data)]),
                        ![s].resp =
                           IF falta
                           THEN [status |-> 400, error |-> "No activo"]
                           ELSE [status |-> 201,
                                 mensaje |-> "Cita creada exitosamente",
                                 cita |-> CitaJson(nueva_cita)]]
    /\ UNCHANGED <<cli, identidad, resp, canceladas>>

\* Mutant of crear_cita_insertar: the table has a unique constraint on
\* (id_doctor, fecha) among PROGRAMADA rows, and the commit of a second such
\* row raises.
crear_cita_insertar_unico(s) ==
    /\ sol[s].pc = "insertar"
    /\ LET nueva_cita == Appointment(Len(citas) + 1, sol[s].data,
                                     sol[s].fecha_dt, sol[s].usuario_id)
           choca == cita_conflicto(citas, sol[s].data.id_doctor,
                                   sol[s].fecha_dt)
       IN  /\ citas' = IF choca THEN citas ELSE Append(citas, nueva_cita)
           /\ sol' = [sol EXCEPT
                        ![s].pc = "fin",
                        ![s].llamadas =
                           Append(@, [paso |-> "insertar",
                                      resultado |->
                                        IF choca THEN 0 ELSE nueva_cita.id,
                                      activos |-> Activos(sol[s].data)]),
                        ![s].resp =
                           IF choca
                           THEN [status |-> 500]
                           ELSE [status |-> 201,
                                 mensaje |-> "Cita creada exitosamente",
                                 cita |-> CitaJson(nueva_cita)]]
    /\ UNCHANGED <<cli, identidad, resp, canceladas>>

\* Lines 206-232: db.session.add, db.session.commit, the 201 response.  The
\* table has no unique constraint on (id_doctor, fecha): the insert succeeds
\* whatever rows there are.
crear_cita_insertar(s) ==
    /\ sol[s].pc = "insertar"
    /\ LET nueva_cita == Appointment(Len(citas) + 1, sol[s].data,
                                     sol[s].fecha_dt, sol[s].usuario_id)
       IN  /\ citas' = Append(citas, nueva_cita)
           /\ sol' = [sol EXCEPT
                        ![s].pc = "fin",
                        ![s].llamadas =
                           Append(@, [paso |-> "insertar",
                                      resultado |-> nueva_cita.id,
                                      activos |-> Activos(sol[s].data)]),
                        ![s].resp = [status |-> 201,
                                     mensaje |-> "Cita creada exitosamente",
                                     cita |-> CitaJson(nueva_cita)]]
    /\ UNCHANGED <<cli, identidad, resp, canceladas>>

\* The response reaches the client and the thread is free again.
Entregar(s) ==
    /\ sol[s].pc = "fin"
    /\ sol' = [sol EXCEPT ![s] = Libre]
    /\ UNCHANGED <<cli, citas, identidad, resp, canceladas>>

(***************************************************************************)
(* Appointment service: GET /citas, GET /citas/<id>, PUT /citas/<id>       *)
(***************************************************************************)

\* Query parameters of GET /citas: a function whose domain is the set of
\* parameters the request supplies.
SinFiltros == [k \in {} |-> ""]

Filtros ==
    { SinFiltros,
      [estado |-> "CANCELADA"],
      [id_doctor |-> 1],
      [id_doctor |-> 0],
      [fecha_inicio |-> "2026-01-21T09:30:00"],
      [fecha_fin |-> "2026-01-20T10:00:00"],
      [fecha_inicio |-> "2026-01-20T10:00:00",
       fecha_fin |-> "2026-01-20T10:00:00"],
      [id_doctor |-> 2, id_centro |-> 1, estado |-> "PROGRAMADA"],
      [fecha_inicio |-> "20/01/2026"] }

\* x = request.args.get(k); "if x:" -- the parameter is supplied and its
\* value is neither "" nor 0.
SiArg(f, k) ==
    /\ k \in DOMAIN f
    /\ f[k] # (IF k \in {"id_doctor", "id_centro"} THEN 0 ELSE "")

\* Ids a client puts in the path of /citas/<id>.
IdsCita == 1 .. (MaxCitas + 1)

\* Mutant of PasaFiltros: the upper bound of the range is exclusive.
PasaFiltros_fin_exclusivo(c, f) ==
    /\ SiArg(f, "fecha_inicio") =>
          c.fecha.wall >= fromisoformat(f.fecha_inicio).wall
    /\ SiArg(f, "fecha_fin") => c.fecha.wall < fromisoformat(f.fecha_fin).wall
    /\ SiArg(f, "id_doctor") => c.id_doctor = f.id_doctor
    /\ SiArg(f, "id_centro") => c.id_centro = f.id_centro
    /\ SiArg(f, "estado") => c.estado = f.estado

\* The row passes every filter the handler applied.
PasaFiltros(c, f) ==
    /\ SiArg(f, "fecha_inicio") =>
          c.fecha.wall >= fromisoformat(f.fecha_inicio).wall
    /\ SiArg(f, "fecha_fin") => c.fecha.wall <= fromisoformat(f.fecha_fin).wall
    /\ SiArg(f, "id_doctor") => c.id_doctor = f.id_doctor
    /\ SiArg(f, "id_centro") => c.id_centro = f.id_centro
    /\ SiArg(f, "estado") => c.estado = f.estado

RECURSIVE Seleccionar(_, _)
\* query.all(): the rows that pass, in id order.
Seleccionar(tabla, f) ==
    IF tabla = <<>> THEN <<>>
    ELSE LET resto == Seleccionar(Tail(tabla), f)
         IN  IF PasaFiltros(Head(tabla), f)
             THEN <<CitaJson(Head(tabla))>> \o resto
             ELSE resto

\* datetime.fromisoformat(fecha_inicio) and (fecha_fin) are not guarded: a
\* value that does not parse raises out of the handler.
FiltroMalformado(f) ==
    \/ SiArg(f, "fecha_inicio") /\ ~fromisoformat(f.fecha_inicio).ok
    \/ SiArg(f, "fecha_fin") /\ ~fromisoformat(f.fecha_fin).ok

listar_citas(f) ==
    /\ resp' =
         IF FiltroMalformado(f)
         THEN [op |-> "listar_citas", filtros |-> f, status |-> 500]
         ELSE [op |-> "listar_citas", filtros |-> f, status |-> 200,
               citas |-> Seleccionar(citas, f)]
    /\ UNCHANGED <<cli, citas, identidad, sol, canceladas>>

obtener_cita(cita_id) ==
    /\ resp' =
         IF cita_id \notin DOMAIN citas
         THEN [op |-> "obtener_cita", cita_id |-> cita_id, status |-> 404,
               error |-> "Cita no encontrada"]
         ELSE [op |-> "obtener_cita", cita_id |-> cita_id, status |-> 200,
               cita |-> CitaJson(citas[cita_id])]
    /\ UNCHANGED <<cli, citas, identidad, sol, canceladas>>

\* Mutant of Cancelar: the appointment is closed as COMPLETADA.
Cancelar_completa(tabla, cita_id) ==
    [tabla EXCEPT ![cita_id].estado = "COMPLETADA"]

\* Mutant of Cancelar: cancelling also blanks the appointment's motivo.
Cancelar_borra_motivo(tabla, cita_id) ==
    [tabla EXCEPT ![cita_id].estado = "CANCELADA", ![cita_id].motivo = ""]

\* Mutant of Cancelar: the change of estado does not reach the table.
Cancelar_sin_commit(tabla, cita_id) == tabla

\* cita.estado = "CANCELADA"; db.session.commit()
Cancelar(tabla, cita_id) == [tabla EXCEPT ![cita_id].estado = "CANCELADA"]

\* The "cita" object of the response of PUT /citas/<id>
CitaCanceladaJson(c) ==
    [id |-> c.id, fecha |-> isoformat(c.fecha), motivo |-> c.motivo,
     estado |-> c.estado]

\* Mutant of cancelar_cita: no check that the appointment is already
\* CANCELADA, so a repeated PUT is answered 200 again.
cancelar_cita_sin_rechazo(cita_id) ==
    IF cita_id \notin DOMAIN citas
    THEN /\ resp' = [op |-> "cancelar_cita", cita_id |-> cita_id,
                     status |-> 404, error |-> "Cita no encontrada"]
         /\ UNCHANGED <<cli, citas, identidad, sol, canceladas>>
    ELSE /\ citas' = [citas EXCEPT ![cita_id].estado = "CANCELADA"]
         /\ resp' = [op |-> "cancelar_cita", cita_id |-> cita_id,
                     status |-> 200,
                     mensaje |-> "Cita cancelada exitosamente",
                     cita |-> CitaCanceladaJson(citas'[cita_id])]
         /\ canceladas' = canceladas \cup {cita_id}
         /\ UNCHANGED <<cli, identidad, sol>>

\* Mutant of cancelar_cita: PUT on a CANCELADA appointment puts it back to
\* PROGRAMADA.
cancelar_cita_alterna(cita_id) ==
    IF cita_id \notin DOMAIN citas
    THEN /\ resp' = [op |-> "cancelar_cita", cita_id |-> cita_id,
                     status |-> 404, error |-> "Cita no encontrada"]
         /\ UNCHANGED <<cli, citas, identidad, sol, canceladas>>
    ELSE /\ citas' = [citas EXCEPT ![cita_id].estado =
                        IF @ = "CANCELADA" THEN "PROGRAMADA" ELSE "CANCELADA"]
         /\ resp' = [op |-> "cancelar_cita", cita_id |-> cita_id,
                     status |-> 200,
                     mensaje |-> "Cita cancelada exitosamente",
                     cita |-> CitaCanceladaJson(citas'[cita_id])]
         /\ canceladas' = canceladas \cup {cita_id}
         /\ UNCHANGED <<cli, identidad, sol>>

cancelar_cita(cita_id) ==
    IF cita_id \notin DOMAIN citas
    THEN /\ resp' = [op |-> "cancelar_cita", cita_id |-> cita_id,
                     status |-> 404, error |-> "Cita no encontrada"]
         /\ UNCHANGED <<cli, citas, identidad, sol, canceladas>>
    ELSE IF citas[cita_id].estado = "CANCELADA"
    THEN /\ resp' = [op |-> "cancelar_cita", cita_id |-> cita_id,
                     status |-> 400, error |-> "La cita ya está cancelada"]
         /\ UNCHANGED <<cli, citas, identidad, sol, canceladas>>
    ELSE /\ citas' = Cancelar(citas, cita_id)
         /\ resp' = [op |-> "cancelar_cita", cita_id |-> cita_id,
                     status |-> 200,
                     mensaje |-> "Cita cancelada exitosamente",
                     cita |-> CitaCanceladaJson(citas'[cita_id])]
         /\ canceladas' = canceladas \cup {cita_id}
         /\ UNCHANGED <<cli, identidad, sol>>

(***************************************************************************)
(* Command-line client                                                     *)
(***************************************************************************)

\* client._token before a login and after "Cerrar sesión"
Ninguno == "None"

\* What a call of a RestClient method can raise: session.<verb>(...,
\* timeout=DEFAULT_TIMEOUT) raises ConnectionError or Timeout, and
\* response.json() raises JSONDecodeError when the body is not JSON.
Excepciones == {"ConnectionError", "Timeout", "JSONDecodeError"}

\* The outcomes of a call: one of the exceptions, or a JSON body, with an
\* access_token ("json_token") or without one ("json").
RespuestasHttp == {"json", "json_token"} \cup Excepciones

\* The client when main() starts the menu.
RestClient == [menu |-> "principal", token |-> Ninguno, salida |-> [mensaje |-> ""]]

\* The methods each submenu calls for its options 1, 2, ...
MetodosDe(menu) ==
    CASE menu = "pacientes" ->
            <<"list_patients", "get_patient", "create_patient",
              "update_patient", "delete_patient">>
      [] menu = "doctores" ->
            <<"list_doctors", "get_doctor", "create_doctor",
              "update_doctor", "delete_doctor">>
      [] menu = "centros" ->
            <<"list_centers", "get_center", "create_center",
              "update_center", "delete_center">>
      [] menu = "citas" ->
            <<"list_appointments", "get_appointment", "create_appointment",
              "cancel_appointment">>

\* Options of the menus: "9" is not an option of any.
Opciones == {"0", "1", "2", "3", "4", "5", "6", "9"}

\* The option that returns from a submenu with "No se especificaron cambios."
\* when no field is given, and the options that ask for a confirmation.
PideDatos(menu, choice) == menu # "citas" /\ choice = "4"

PideConfirmar(menu, choice) ==
    (menu # "citas" /\ choice = "5") \/ (menu = "citas" /\ choice = "4")

\* print(...) of a message, in the menu where the loop goes on
Mensaje(menu, texto) ==
    cli' = [menu |-> menu, token |-> cli.token, salida |-> [mensaje |-> texto]]

\* result = client.<metodo>(...); _print_json(result) inside
\* "try: ... except KeyboardInterrupt:": the body is printed and the loop goes
\* on; an exception of the call is not a KeyboardInterrupt, so it leaves the
\* loop, run_interactive_menu and main().
Llamar(menu, metodo, r) ==
    cli' = [menu |-> IF r \in Excepciones THEN "excepcion" ELSE menu,
            token |-> cli.token,
            salida |-> [metodo |-> metodo, resultado |-> r]]

\* RestClient.login: self._token = response.json().get("access_token"), not
\* assigned when the call raises.
Login(r) ==
    cli' = [menu |-> IF r \in Excepciones THEN "excepcion" ELSE "principal",
            token |-> IF r \in Excepciones THEN cli.token
                      ELSE IF r = "json_token" THEN "jwt" ELSE Ninguno,
            salida |-> [metodo |-> "login", resultado |-> r]]

\* One iteration of the loop of run_interactive_menu, options 0 to 6 and the
\* invalid ones.
run_interactive_menu(choice, r) ==
    /\ cli.menu = "principal"
    /\ IF choice = "0" THEN cli' = [cli EXCEPT !.menu = "fin"]
       ELSE IF cli.token = Ninguno
       THEN CASE choice = "1" -> Llamar("principal", "register_user", r)
              [] choice = "2" -> Login(r)
              [] OTHER -> Mensaje("principal", "Opción inválida.")
       ELSE CASE choice = "1" -> Llamar("principal", "verify_token", r)
              [] choice = "2" ->
                    cli' = [menu |-> "principal", token |-> Ninguno,
                            salida |-> [mensaje |-> "Sesión cerrada correctamente"]]
              [] choice = "3" -> cli' = [cli EXCEPT !.menu = "pacientes"]
              [] choice = "4" -> cli' = [cli EXCEPT !.menu = "doctores"]
              [] choice = "5" -> cli' = [cli EXCEPT !.menu = "centros"]
              [] choice = "6" -> cli' = [cli EXCEPT !.menu = "citas"]
              [] OTHER -> Mensaje("principal", "Opción inválida.")
    /\ UNCHANGED servicios

\* One iteration of the loop of a submenu; dato says whether the user gave a
\* field to update, or confirmed.
Submenu(menu, choice, dato, r) ==
    /\ cli.menu = menu
    /\ IF choice = "0" THEN cli' = [cli EXCEPT !.menu = "principal"]
       ELSE IF choice \notin {Digitos[n] : n \in DOMAIN MetodosDe(menu)}
       THEN Mensaje(menu, "Opción inválida.")
       ELSE IF PideDatos(menu, choice) /\ ~dato
       THEN Mensaje("principal", "No se especificaron cambios.")
       ELSE IF PideConfirmar(menu, choice) /\ ~dato
       THEN Mensaje(menu, "Cancelado.")
       ELSE Llamar(menu, MetodosDe(menu)[ToInt(choice)], r)
    /\ UNCHANGED servicios

menu_patients(choice, dato, r) == Submenu("pacientes", choice, dato, r)

menu_doctors(choice, dato, r) == Submenu("doctores", choice, dato, r)

menu_centers(choice, dato, r) == Submenu("centros", choice, dato, r)

menu_appointments(choice, dato, r) == Submenu("citas", choice, dato, r)

\* The method each kind of bulk load calls for each row.
MetodosCarga ==
    <<"register_user", "create_patient", "create_doctor", "create_center",
      "create_appointment">>

\* Option 7 of the main menu, _menu_bulk_load, with a file of one row: the
\* loaders catch Exception for each row and count it as failed.
menu_bulk_load(choice, r) ==
    /\ cli.menu = "principal"
    /\ cli.token # Ninguno
    /\ IF choice = "0"
       THEN Mensaje("principal", "Operación cancelada por el usuario.")
       ELSE IF choice \notin {Digitos[n] : n \in DOMAIN MetodosCarga}
       THEN Mensaje("principal", "Opción inválida.")
       ELSE cli' = [menu |-> "principal", token |-> cli.token,
                    salida |-> [metodo |-> MetodosCarga[ToInt(choice)],
                                ok |-> IF r \in Excepciones THEN 0 ELSE 1,
                                failed |-> IF r \in Excepciones THEN 1 ELSE 0]]
    /\ UNCHANGED servicios

\* Ctrl+C at a prompt: a submenu returns to the main menu; the main menu
\* asks whether to continue and ends the loop unless the answer is yes.
KeyboardInterrupt(cont) ==
    /\ cli.menu \in {"principal", "pacientes", "doctores", "centros", "citas"}
    /\ IF cli.menu = "principal"
       THEN IF cont THEN Mensaje("principal", "Interrupción detectada (Ctrl+C)")
            ELSE cli' = [cli EXCEPT !.menu = "fin"]
       ELSE Mensaje("principal", "Volviendo al menú principal...")
    /\ UNCHANGED servicios

(***************************************************************************)
(* Specifications                                                          *)
(***************************************************************************)

\* The databases after the initial load: an admin and a secretary, one active
\* patient, two active doctors, one active center, no appointment.
Init ==
    /\ citas = <<>>
    /\ users = << [username |-> "admin",
                   password |-> generate_password_hash("admin123"),
                   rol |-> "admin"],
                  [username |-> "recepcion",
                   password |-> generate_password_hash("recep123"),
                   rol |-> "secretaria"] >>
    /\ pacientes = << [nombre |-> "Ana", telefono |-> "600", estado |-> "ACTIVO"] >>
    /\ doctores = << [nombre |-> "Dr. Uno", especialidad |-> "Ortodoncia",
                      estado |-> "ACTIVO"],
                     [nombre |-> "Dr. Dos", especialidad |-> "Endodoncia",
                      estado |-> "ACTIVO"] >>
    /\ centros = << [nombre |-> "Centro", direccion |-> "Calle 1",
                     estado |-> "ACTIVO"] >>
    /\ sol = [s \in Solicitudes |-> Libre]
    /\ resp = SinResp
    /\ canceladas = {}
    /\ cli = RestClient

\* Tokens of the callers of the identity service's admin endpoints.
Administradores == {1}

\* Bodies of PUT /admin/<kind>/<id>.
CuerposActualizar == {[estado |-> e] : e \in EstadosEntidad}

\* No POST /citas is being served.
TodasLibres == \A s \in Solicitudes : sol[s].pc = "libre"

\* Requests of an administrator to the identity service, which is another
\* process: they are served whatever the appointment service is doing, and
\* their responses go to the administrator, not to the client of the
\* appointment service whose responses resp holds.
Administrar ==
    \/ \E id \in IdsPaciente, uid \in Administradores :
            eliminar_paciente(id, uid, FALSE)
    \/ \E id \in IdsDoctor, uid \in Administradores :
            eliminar_doctor(id, uid, FALSE)
    \/ \E id \in IdsCentro, uid \in Administradores :
            eliminar_centro(id, uid, FALSE)
    \/ \E id \in IdsPaciente, uid \in Administradores, d \in CuerposActualizar :
            actualizar_paciente(id, uid, d, FALSE)
    \/ \E id \in IdsDoctor, uid \in Administradores, d \in CuerposActualizar :
            actualizar_doctor(id, uid, d, FALSE)
    \/ \E id \in IdsCentro, uid \in Administradores, d \in CuerposActualizar :
            actualizar_centro(id, uid, d, FALSE)

\* The steps of the POST /citas request that thread s is serving.
Pasos(s) ==
    \/ crear_cita_verificar_paciente(s)
    \/ crear_cita_verificar_doctor(s)
    \/ crear_cita_verificar_centro(s)
    \/ crear_cita_consulta(s)
    \/ crear_cita_insertar(s)
    \/ Entregar(s)

\* Requests to the appointment service are served one at a time, by one
\* thread.
Next ==
    \/ \E u \in Identidades, d \in Cuerpos : TodasLibres /\ crear_cita("r1", u, d)
    \/ Pasos("r1")
    \/ \E id \in IdsCita : TodasLibres /\ cancelar_cita(id)
    \/ \E id \in IdsCita : TodasLibres /\ obtener_cita(id)
    \/ \E f \in Filtros : TodasLibres /\ listar_citas(f)
    \/ Administrar

Spec == Init /\ [][Next]_vars

\* Callers of the identity service: the id in the token, of a user that
\* exists or of none (the ids after the last user's).
Llamadores == 1 .. MaxUsers

\* Ids a client puts in the path of /admin/<clase>/<id> and /verify/<clase>/<id>.
IdsRegistro == {1, 3}

\* Bodies of POST /admin/<clase>.
CuerposCrear ==
    { [nombre |-> "Eva"], [telefono |-> "611"] }

\* Query strings of GET /admin/<clase>.
ArgsListar ==
    { SinArgs, [estado |-> "INACTIVO"], [page |-> 2, per_page |-> 1] }

\* Bodies of POST /auth/register.
CuerposRegistro ==
    { [username |-> "admin", password |-> "x"],
      [username |-> "eva", password |-> "x"],
      [username |-> "eva", password |-> "x", rol |-> "admin"],
      [username |-> "eva", password |-> "x", rol |-> "superusuario"],
      [username |-> "eva"] }

\* Bodies of POST /auth/login.
CuerposLogin ==
    { [username |-> "admin", password |-> "admin123"],
      [username |-> "admin", password |-> "x"],
      [username |-> "eva", password |-> "x"],
      [username |-> "eva"] }

\* The identity service alone: its requests are served one at a time, each
\* in one database transaction.
NextIdentidad ==
    \/ \E d \in CuerposRegistro : register(d)
    \/ \E d \in CuerposLogin : login(d)
    \/ \E i \in DOMAIN users : verificar_token(create_access_token(Str(i)))
    \/ \E u \in Llamadores, d \in CuerposCrear : crear_paciente(u, d)
    \/ \E u \in Llamadores, a \in ArgsListar : listar_pacientes(u, a)
    \/ \E id \in IdsRegistro, u \in Llamadores : obtener_paciente(id, u)
    \/ \E id \in IdsRegistro, u \in Llamadores, d \in CuerposActualizar :
            actualizar_paciente(id, u, d, TRUE)
    \/ \E id \in IdsRegistro, u \in Llamadores : eliminar_paciente(id, u, TRUE)
    \/ \E u \in Llamadores, d \in CuerposCrear : crear_doctor(u, d)
    \/ \E u \in Llamadores, a \in ArgsListar : listar_doctores(u, a)
    \/ \E id \in IdsRegistro, u \in Llamadores : obtener_doctor(id, u)
    \/ \E id \in IdsRegistro, u \in Llamadores, d \in CuerposActualizar :
            actualizar_doctor(id, u, d, TRUE)
    \/ \E id \in IdsRegistro, u \in Llamadores : eliminar_doctor(id, u, TRUE)
    \/ \E u \in Llamadores, d \in CuerposCrear : crear_centro(u, d)
    \/ \E u \in Llamadores, a \in ArgsListar : listar_centros(u, a)
    \/ \E id \in IdsRegistro, u \in Llamadores : obtener_centro(id, u)
    \/ \E id \in IdsRegistro, u \in Llamadores, d \in CuerposActualizar :
            actualizar_centro(id, u, d, TRUE)
    \/ \E id \in IdsRegistro, u \in Llamadores : eliminar_centro(id, u, TRUE)
    \/ \E id \in IdsRegistro : verify_pacientes(id)
    \/ \E id \in IdsRegistro : verify_doctores(id)
    \/ \E id \in IdsRegistro : verify_centros(id)

SpecIdentidad == Init /\ [][NextIdentidad]_vars

\* Bodies an administrator sends to POST /admin/<clase> and to
\* PUT /admin/<clase>/<id>: the handlers take the estado that the body gives.
CuerposCrearAdmin == { [nombre |-> "Eva", estado |-> "SUSPENDIDO"] }

CuerposActualizarAdmin ==
    { [nombre |-> "Bea"], [estado |-> "ACTIVO"], [estado |-> "SUSPENDIDO"] }

\* The identity service used by one administrator, whose requests are served
\* one at a time.
NextAdmin ==
    \/ \E u \in Administradores, d \in CuerposCrearAdmin : crear_paciente(u, d)
    \/ \E u \in Administradores, d \in CuerposCrearAdmin : crear_doctor(u, d)
    \/ \E u \in Administradores, d \in CuerposCrearAdmin : crear_centro(u, d)
    \/ \E id \in IdsRegistro, u \in Administradores, d \in CuerposActualizarAdmin :
            actualizar_paciente(id, u, d, TRUE)
    \/ \E id \in IdsRegistro, u \in Administradores, d \in CuerposActualizarAdmin :
            actualizar_doctor(id, u, d, TRUE)
    \/ \E id \in IdsRegistro, u \in Administradores, d \in CuerposActualizarAdmin :
            actualizar_centro(id, u, d, TRUE)
    \/ \E id \in IdsRegistro, u \in Administradores : eliminar_paciente(id, u, TRUE)
    \/ \E id \in IdsRegistro, u \in Administradores : eliminar_doctor(id, u, TRUE)
    \/ \E id \in IdsRegistro, u \in Administradores : eliminar_centro(id, u, TRUE)
    \/ \E u \in Administradores : listar_pacientes(u, SinArgs)
    \/ \E u \in Administradores : listar_doctores(u, SinArgs)
    \/ \E u \in Administradores : listar_centros(u, SinArgs)
    \/ \E id \in IdsRegistro : verify_pacientes(id)
    \/ \E id \in IdsRegistro : verify_doctores(id)
    \/ \E id \in IdsRegistro : verify_centros(id)

SpecAdmin == Init /\ [][NextAdmin]_vars

\* The command-line client alone: what the services answer, or that they do
\* not, is the outcome r of each call.
NextCli ==
    \/ \E c \in Opciones, r \in RespuestasHttp : run_interactive_menu(c, r)
    \/ \E c \in Opciones, d \in BOOLEAN, r \in RespuestasHttp :
            menu_patients(c, d, r)
    \/ \E c \in Opciones, d \in BOOLEAN, r \in RespuestasHttp :
            menu_doctors(c, d, r)
    \/ \E c \in Opciones, d \in BOOLEAN, r \in RespuestasHttp :
            menu_centers(c, d, r)
    \/ \E c \in Opciones, d \in BOOLEAN, r \in RespuestasHttp :
            menu_appointments(c, d, r)
    \/ \E c \in Opciones, r \in RespuestasHttp : menu_bulk_load(c, r)
    \/ \E cont \in BOOLEAN : KeyboardInterrupt(cont)

SpecCli == Init /\ [][NextCli]_vars

\* Requests to the appointment service overlap: the threads interleave.
NextConc ==
    \/ \E s \in Solicitudes, u \in Identidades, d \in Cuerpos : crear_cita(s, u, d)
    \/ \E s \in Solicitudes : Pasos(s)

SpecConc == Init /\ [][NextConc]_vars

(***************************************************************************)
(* Properties                                                              *)
(***************************************************************************)

\* The calls thread s has made with the given name.
Llamadas(s, paso) ==
    IF sol[s].pc = "libre" THEN {}
    ELSE {i \in DOMAIN sol[s].llamadas : sol[s].llamadas[i].paso = paso}

\* The last call thread s has made has the given name.
UltimaEs(s, paso) ==
    /\ sol[s].pc # "libre"
    /\ sol[s].llamadas # <<>>
    /\ sol[s].llamadas[Len(sol[s].llamadas)].paso = paso

\* The result of the last call thread s has made.
UltimoResultado(s) == sol[s].llamadas[Len(sol[s].llamadas)].resultado

\* Thread s has run the conflict query and it returned no row.
PasoConsulta(s) ==
    /\ Llamadas(s, "consulta") # {}
    /\ \A i \in Llamadas(s, "consulta") : sol[s].llamadas[i].resultado = 0

\* Rows i and j are two PROGRAMADA appointments of one doctor at one
\* timestamp.
DobleReserva(i, j) ==
    /\ i # j
    /\ citas[i].id_doctor = citas[j].id_doctor
    /\ citas[i].fecha = citas[j].fecha
    /\ citas[i].estado = "PROGRAMADA"
    /\ citas[j].estado = "PROGRAMADA"

\* C1: when the requests to the appointment service are served one at a time,
\* no doctor has two PROGRAMADA appointments at the same timestamp.
C1_UnaProgramadaPorDoctorYFecha ==
    \A i, j \in DOMAIN citas : ~DobleReserva(i, j)

\* C1's case: a doctor's slot was booked, cancelled and booked again, so two
\* rows share doctor and timestamp and only one of them is PROGRAMADA.
C1_Witness ==
    \E i, j \in DOMAIN citas :
        /\ i # j
        /\ citas[i].id_doctor = citas[j].id_doctor
        /\ citas[i].fecha = citas[j].fecha
        /\ citas[i].estado = "CANCELADA"
        /\ citas[j].estado = "PROGRAMADA"

\* Threads s and t serve requests for the same doctor and timestamp, both have
\* run the conflict query, which returned no row, and both have returned.
AmbasPasaron(s, t) ==
    /\ s # t
    /\ sol[s].pc = "fin" /\ sol[t].pc = "fin"
    /\ PasoConsulta(s) /\ PasoConsulta(t)
    /\ sol[s].data.id_doctor = sol[t].data.id_doctor
    /\ ColumnaDateTime(sol[s].fecha_dt) = ColumnaDateTime(sol[t].fecha_dt)

\* The request of thread s returned 201 and its row is PROGRAMADA.
Insertada(s) ==
    /\ sol[s].resp.status = 201
    /\ sol[s].resp.cita.id \in DOMAIN citas
    /\ citas[sol[s].resp.cita.id].estado = "PROGRAMADA"
    /\ citas[sol[s].resp.cita.id].id_doctor = sol[s].data.id_doctor
    /\ citas[sol[s].resp.cita.id].fecha = ColumnaDateTime(sol[s].fecha_dt)

\* C2: when two overlapping POST /citas for the same doctor and timestamp
\* have both passed the conflict query, both insert: each returns 201 and the
\* table holds two PROGRAMADA rows for that doctor and timestamp, nothing in
\* the store rejecting the second.
C2_AmbasInsertan ==
    \A s, t \in Solicitudes :
        AmbasPasaron(s, t) =>
            /\ Insertada(s) /\ Insertada(t)
            /\ DobleReserva(sol[s].resp.cita.id, sol[t].resp.cita.id)

\* C2's case: both requests ran the conflict query before either committed
\* (neither query could see the other's row) and both rows are there.
C2_Witness ==
    \E s, t \in Solicitudes :
        /\ AmbasPasaron(s, t)
        /\ Insertada(s) /\ Insertada(t)
        /\ \A i \in Llamadas(s, "consulta") :
              sol[s].llamadas[i].filas < sol[t].resp.cita.id
        /\ \A i \in Llamadas(t, "consulta") :
              sol[t].llamadas[i].filas < sol[s].resp.cita.id
        /\ DobleReserva(sol[s].resp.cita.id, sol[t].resp.cita.id)

\* The request of thread s asks for the doctor and timestamp of row i.
PideLoDe(s, i) ==
    /\ citas[i].id_doctor = sol[s].data.id_doctor
    /\ citas[i].fecha = ColumnaDateTime(sol[s].fecha_dt)

\* The request of thread s has added no row (requests served one at a time).
NadaCreado(s) == Len(citas) = sol[s].habia

\* Thread s has run the conflict query while row i, PROGRAMADA, held the
\* doctor and timestamp it asks for.
ConsultoConReserva(s, i) ==
    /\ \E k \in Llamadas(s, "consulta") : i <= sol[s].llamadas[k].filas
    /\ citas[i].estado = "PROGRAMADA"
    /\ PideLoDe(s, i)

\* C3: served one at a time, a POST /citas that passes its verifications
\* while a PROGRAMADA appointment holds its doctor and timestamp is answered
\* 400 with the scheduling conflict and adds no row.
C3_SegundaRechazada ==
    \A s \in Solicitudes :
        \A i \in DOMAIN citas :
            ConsultoConReserva(s, i) =>
                /\ sol[s].pc = "fin"
                /\ sol[s].resp.status = 400
                /\ sol[s].resp.error =
                      "El doctor ya tiene una cita programada en esa fecha y hora"
                /\ NadaCreado(s)

\* C3's case: a request was rejected for the conflict with a PROGRAMADA row.
C3_Witness ==
    \E s \in Solicitudes :
        \E i \in DOMAIN citas :
            /\ ConsultoConReserva(s, i)
            /\ sol[s].pc = "fin"
            /\ sol[s].resp.status = 400

PasosVerificar == {"verificar_paciente", "verificar_doctor", "verificar_centro"}

\* The table has no row with this id, or the row is INACTIVO.
NoExisteOInactivo(tabla, id) ==
    id \notin DOMAIN tabla \/ tabla[id].estado = "INACTIVO"

\* Thread s is about to verify an entity that does not exist or is INACTIVO.
VaAVerificarInexistente(s) ==
    \/ /\ sol[s].pc = "verificar_paciente"
       /\ NoExisteOInactivo(pacientes, sol[s].data.id_paciente)
    \/ /\ sol[s].pc = "verificar_doctor"
       /\ NoExisteOInactivo(doctores, sol[s].data.id_doctor)
    \/ /\ sol[s].pc = "verificar_centro"
       /\ NoExisteOInactivo(centros, sol[s].data.id_centro)

\* C4: the verify step of a POST /citas whose patient, doctor or center does
\* not exist or is INACTIVO at that moment ends the request with a rejection
\* (400, or 401 or 403 if the call failed that way) and the appointment rows
\* are as they were when the request arrived.
C4_InexistenteRechazada ==
    [][ \A s \in Solicitudes :
          (VaAVerificarInexistente(s) /\ sol'[s] # sol[s]) =>
              /\ sol'[s].pc = "fin"
              /\ sol'[s].resp.status \in {400, 401, 403}
              /\ citas' = citas
              /\ Len(citas') = sol'[s].habia ]_vars

\* C4's case: a request was rejected because its doctor, which exists, was
\* INACTIVO when verified.
C4_Witness ==
    \E s \in Solicitudes :
        /\ sol[s].pc = "fin"
        /\ UltimaEs(s, "verificar_doctor")
        /\ UltimoResultado(s) = 404
        /\ sol[s].data.id_doctor \in DOMAIN doctores
        /\ doctores[sol[s].data.id_doctor].estado = "INACTIVO"
        /\ sol[s].resp.status = 400
        /\ NadaCreado(s)

\* The order of the calls of a POST /citas.
Orden ==
    << "verificar_paciente", "verificar_doctor", "verificar_centro",
       "consulta", "insertar" >>

\* The i-th call of a request succeeded: a verify call returned 200, the
\* conflict query returned no row.
Exito(llamada) ==
    IF llamada.paso \in PasosVerificar THEN llamada.resultado = 200
    ELSE IF llamada.paso = "consulta" THEN llamada.resultado = 0
    ELSE TRUE

\* C5: the calls of a POST /citas are, in this order, the patient verify
\* call, the doctor verify call, the center verify call, the conflict query
\* and the insert; each is made only after all the earlier ones succeeded
\* (status 200, no conflicting row), a call that fails is the request's last,
\* and a row is added only by the insert.
C5_OrdenDeLlamadas ==
    \A s \in Solicitudes :
        sol[s].pc # "libre" =>
            LET ll == sol[s].llamadas IN
            /\ Len(ll) <= Len(Orden)
            /\ \A i \in DOMAIN ll : ll[i].paso = Orden[i]
            /\ \A i \in DOMAIN ll : i < Len(ll) => Exito(ll[i])
            /\ (ll # <<>> /\ ~Exito(ll[Len(ll)])) => sol[s].pc = "fin"
            /\ Len(citas) =
                  sol[s].habia + Cardinality(Llamadas(s, "insertar"))

\* C5's case: a request has made all five calls and its row is in the table.
C5_Witness ==
    \E s \in Solicitudes :
        /\ sol[s].pc = "fin"
        /\ Len(sol[s].llamadas) = Len(Orden)
        /\ sol[s].resp.status = 201
        /\ Len(citas) = sol[s].habia + 1

\* C6: a POST /citas whose verify call returned 401 or 403 is answered with
\* that same status, and adds no row.
C6_PropagaNoAutorizado ==
    \A s \in Solicitudes :
        \A p \in PasosVerificar :
            (UltimaEs(s, p) /\ UltimoResultado(s) \in {401, 403}) =>
                /\ sol[s].pc = "fin"
                /\ sol[s].resp.status = UltimoResultado(s)
                /\ Llamadas(s, "insertar") = {}
                /\ NadaCreado(s)

\* C6's case: the center verify call returned 403 and so did POST /citas.
C6_Witness ==
    \E s \in Solicitudes :
        /\ UltimaEs(s, "verificar_centro")
        /\ UltimoResultado(s) = 403
        /\ sol[s].resp.status = 403

\* C7: a POST /citas whose verify call ended in anything but 200, 401 or 403
\* (another status, or no response) is answered 400 and adds no row, and no
\* verify endpoint is called twice by one request.
C7_OtroFalloEs400 ==
    \A s \in Solicitudes :
        \A p \in PasosVerificar :
            /\ Cardinality(Llamadas(s, p)) <= 1
            /\ (UltimaEs(s, p) /\ UltimoResultado(s) \notin {200, 401, 403}) =>
                  /\ sol[s].pc = "fin"
                  /\ sol[s].resp.status = 400
                  /\ Llamadas(s, "insertar") = {}
                  /\ NadaCreado(s)

\* C7's case: the patient verify call got no response and POST /citas
\* answered 400 after that one call.
C7_Witness ==
    \E s \in Solicitudes :
        /\ UltimaEs(s, "verificar_paciente")
        /\ UltimoResultado(s) = SinRespuesta
        /\ Len(sol[s].llamadas) = 1
        /\ sol[s].resp.status = 400

\* The values of Fechas that are ISO-8601 timestamps.
FechasISO ==
    {"2026-01-20T10:00:00", "2026-01-20T10:00:00Z", "2026-01-21T09:30:00"}

\* The body lacks a required key, or its fecha is not an ISO-8601 timestamp.
CuerpoInvalido(data) ==
    \/ \E k \in Claves : k \notin DOMAIN data
    \/ data.fecha \notin FechasISO

\* C8: a POST /citas whose body lacks a required key or whose fecha does not
\* parse is answered 400 without any verify call, and adds no row.
C8_ValidacionAntesDeVerificar ==
    \A s \in Solicitudes :
        (sol[s].pc # "libre" /\ CuerpoInvalido(sol[s].data)) =>
            /\ sol[s].pc = "fin"
            /\ sol[s].resp.status = 400
            /\ sol[s].llamadas = <<>>
            /\ NadaCreado(s)

\* C8's case: a body without id_centro was answered 400.
C8_Witness ==
    \E s \in Solicitudes :
        /\ sol[s].pc = "fin"
        /\ DOMAIN sol[s].data = Claves \ {"id_centro"}
        /\ sol[s].resp.status = 400
        /\ sol[s].llamadas = <<>>

\* The request of thread s returned 201: what holds of the new row and of
\* the response whatever the text of fecha.
CreadaComoPedida(s) ==
    LET r == sol[s].resp.cita
        d == sol[s].data
    IN  /\ Len(citas) = sol[s].habia + 1
        /\ r.id = Len(citas)
        /\ citas[r.id].id = r.id
        /\ citas[r.id].estado = "PROGRAMADA"
        /\ citas[r.id].id_usuario_registra = sol[s].usuario_id
        /\ citas[r.id].motivo = d.motivo
        /\ citas[r.id].id_paciente = d.id_paciente
        /\ citas[r.id].id_doctor = d.id_doctor
        /\ citas[r.id].id_centro = d.id_centro
        /\ r.motivo = d.motivo
        /\ r.estado = "PROGRAMADA"
        /\ r.id_paciente = d.id_paciente
        /\ r.id_doctor = d.id_doctor
        /\ r.id_centro = d.id_centro

\* The timestamp the text of a request's fecha denotes: 10:00:00 of
\* 2026-01-20 (1) or 09:30:00 of 2026-01-21 (2), in UTC if the text ends in Z.
Denota(fecha) ==
    CASE fecha = "2026-01-20T10:00:00" -> [ok |-> TRUE, wall |-> 1, tz |-> ""]
      [] fecha = "2026-01-20T10:00:00Z" ->
            [ok |-> TRUE, wall |-> 1, tz |-> "+00:00"]
      [] fecha = "2026-01-21T09:30:00" -> [ok |-> TRUE, wall |-> 2, tz |-> ""]

\* C9 as stated: a successful POST /citas adds exactly one row, PROGRAMADA,
\* registered by the caller, whose fecha, motivo and ids are the request's,
\* and the 201 response echoes the request's fecha, motivo and ids and gives
\* the new id.
C9_Original ==
    \A s \in Solicitudes :
        (sol[s].pc = "fin" /\ sol[s].resp.status = 201) =>
            /\ CreadaComoPedida(s)
            /\ citas[sol[s].resp.cita.id].fecha = Denota(sol[s].data.fecha)
            /\ sol[s].resp.cita.fecha = sol[s].data.fecha

\* The texts of Fechas that datetime.isoformat() produces for a naive
\* datetime: YYYY-MM-DDTHH:MM:SS, no offset.
FechasCanonicas == {"2026-01-20T10:00:00", "2026-01-21T09:30:00"}

\* What the code does keep of C9: a successful POST /citas adds exactly one
\* row, PROGRAMADA, registered by the caller, with the request's motivo and
\* ids, whose fecha
\* is the wall-clock date and time of the request's fecha without its UTC
\* offset; the 201 response echoes motivo and the ids, gives the new id, and
\* gives fecha as the ISO-8601 text of the stored timestamp, which is the
\* request's text when that text was already of that form.
C9_CreadaYDevuelta ==
    \A s \in Solicitudes :
        (sol[s].pc = "fin" /\ sol[s].resp.status = 201) =>
            /\ CreadaComoPedida(s)
            /\ citas[sol[s].resp.cita.id].fecha.wall =
                  Denota(sol[s].data.fecha).wall
            /\ citas[sol[s].resp.cita.id].fecha.tz = ""
            /\ sol[s].resp.cita.fecha \in FechasCanonicas
            /\ Denota(sol[s].resp.cita.fecha) =
                  citas[sol[s].resp.cita.id].fecha
            /\ sol[s].data.fecha \in FechasCanonicas =>
                  sol[s].resp.cita.fecha = sol[s].data.fecha

\* The failing case of C9: a request whose fecha ends in Z was answered 201
\* with a fecha that has lost the Z.
C9_Witness ==
    \E s \in Solicitudes :
        /\ sol[s].pc = "fin"
        /\ sol[s].resp.status = 201
        /\ sol[s].data.fecha = "2026-01-20T10:00:00Z"
        /\ sol[s].data.id_doctor = 2
        /\ sol[s].resp.cita.fecha = "2026-01-20T10:00:00"

\* The response is that of a PUT /citas/<id>, just served.
RespuestaDeCancelar(r, id) == r.op = "cancelar_cita" /\ r.cita_id = id

\* A step that serves PUT /citas/<id> for a PROGRAMADA appointment answers
\* 200 and leaves the appointment CANCELADA.
C10_Cancela ==
    \A id \in DOMAIN citas :
        ( /\ citas[id].estado = "PROGRAMADA"
          /\ RespuestaDeCancelar(resp', id)
          /\ resp' # resp ) =>
            /\ resp'.status = 200
            /\ resp'.cita.estado = "CANCELADA"
            /\ citas'[id].estado = "CANCELADA"
            /\ id \in canceladas'

\* Every response of GET /citas/<id> and GET /citas served after the PUT
\* answered 200 reports the appointment as CANCELADA.
C10_SeVeCancelada ==
    \A id \in canceladas :
        /\ (resp.op = "obtener_cita" /\ resp.cita_id = id) =>
              /\ resp.status = 200
              /\ resp.cita.id = id
              /\ resp.cita.estado = "CANCELADA"
        /\ (resp.op = "listar_citas" /\ resp.status = 200) =>
              /\ \A k \in DOMAIN resp.citas :
                    resp.citas[k].id = id => resp.citas[k].estado = "CANCELADA"
              /\ resp.filtros = SinFiltros =>
                    \E k \in DOMAIN resp.citas : resp.citas[k].id = id

\* C10: PUT /citas/<id> on a PROGRAMADA appointment sets it to CANCELADA and
\* answers 200, and every GET /citas/<id> and GET /citas served afterwards
\* reports that appointment with estado CANCELADA.
C10_CancelarSeRefleja ==
    [][C10_Cancela /\ C10_SeVeCancelada']_vars

\* C10's case: after a PUT answered 200 and a later POST /citas added a row,
\* GET /citas without filters lists the cancelled appointment as CANCELADA.
C10_Witness ==
    /\ resp.op = "listar_citas"
    /\ resp.filtros = SinFiltros
    /\ Len(resp.citas) = 2
    /\ \E id \in canceladas :
          \E k \in DOMAIN resp.citas :
              resp.citas[k].id = id /\ resp.citas[k].estado = "CANCELADA"

\* The step serves PUT /citas/<id>: it leaves that handler's response.
SirveCancelar(id) == RespuestaDeCancelar(resp', id) /\ resp' # resp

\* C11: PUT /citas/<id> on an appointment that is already CANCELADA, and so
\* every PUT that follows one answered 200 for the same id, is answered 400
\* and changes no appointment; PUT /citas/<id> on an id with no appointment
\* is answered 404 and changes nothing.
C11_CancelarRechaza ==
    [][\A id \in IdsCita :
          SirveCancelar(id) =>
            /\ (id \in DOMAIN citas /\ citas[id].estado = "CANCELADA") =>
                  /\ resp'.status = 400
                  /\ UNCHANGED <<citas, identidad, canceladas>>
            /\ id \in canceladas =>
                  /\ resp'.status = 400
                  /\ UNCHANGED <<citas, identidad, canceladas>>
            /\ id \notin DOMAIN citas =>
                  /\ resp'.status = 404
                  /\ UNCHANGED <<citas, identidad, canceladas>>]_vars

\* C11's case: a PUT for an id whose earlier PUT had answered 200 was
\* answered 400.
C11_Witness ==
    /\ resp.op = "cancelar_cita"
    /\ resp.status = 400
    /\ resp.cita_id \in canceladas
    /\ citas[resp.cita_id].estado = "CANCELADA"

\* C12: an appointment that is CANCELADA is CANCELADA after every step, of
\* the appointment service or of the identity service.
C12_CanceladaParaSiempre ==
    [][\A id \in DOMAIN citas :
          citas[id].estado = "CANCELADA" =>
            id \in DOMAIN citas' /\ citas'[id].estado = "CANCELADA"]_vars

\* C12's case: after the cancellation a second PUT for the appointment was
\* served, another appointment for the same doctor and time was created, and
\* the doctor was then made INACTIVO.
C12_Witness ==
    /\ Len(citas) = 2
    /\ citas[1].estado = "CANCELADA"
    /\ citas[2].estado = "PROGRAMADA"
    /\ citas[2].id_doctor = citas[1].id_doctor
    /\ citas[2].fecha = citas[1].fecha
    /\ doctores[citas[1].id_doctor].estado = "INACTIVO"
    /\ resp.op = "cancelar_cita" /\ resp.cita_id = 1 /\ resp.status = 400

\* The fields of an appointment that are set when it is created.
DatosDeCita(c) ==
    <<c.id, c.fecha, c.motivo, c.id_paciente, c.id_doctor, c.id_centro,
      c.id_usuario_registra>>

\* C13: no step removes an appointment or changes its fecha, motivo,
\* id_paciente, id_doctor, id_centro or id_usuario_registra, and a step that
\* changes its estado is a PUT /citas/<id> for that appointment.
C13_SoloCancelarMuta ==
    [][\A id \in DOMAIN citas :
          /\ id \in DOMAIN citas'
          /\ DatosDeCita(citas'[id]) = DatosDeCita(citas[id])
          /\ citas'[id].estado # citas[id].estado =>
                SirveCancelar(id) /\ resp'.status = 200]_vars

\* C13's case: an appointment has been cancelled, and then listed, while
\* another was created and the patient of both made INACTIVO.
C13_Witness ==
    /\ Len(citas) = 2
    /\ canceladas = {1}
    /\ citas[1].motivo = "Limpieza"
    /\ pacientes[citas[1].id_paciente].estado = "INACTIVO"
    /\ resp.op = "listar_citas" /\ resp.status = 200 /\ Len(resp.citas) = 2

\* The appointment satisfies every filter the request supplies, the bounds
\* of the range included.
Satisface(c, f) ==
    /\ "fecha_inicio" \in DOMAIN f => c.fecha.wall >= Denota(f.fecha_inicio).wall
    /\ "fecha_fin" \in DOMAIN f => c.fecha.wall <= Denota(f.fecha_fin).wall
    /\ "id_doctor" \in DOMAIN f => c.id_doctor = f.id_doctor
    /\ "id_centro" \in DOMAIN f => c.id_centro = f.id_centro
    /\ "estado" \in DOMAIN f => c.estado = f.estado

\* The response lists, once each, the appointments of the given ids and no
\* other.
ListaExactamente(r, ids) ==
    /\ {r.citas[k].id : k \in DOMAIN r.citas} = ids
    /\ Len(r.citas) = Cardinality(ids)
    /\ \A k \in DOMAIN r.citas : r.citas[k] = CitaJson(citas[r.citas[k].id])

\* C14: GET /citas is answered with exactly the appointments that satisfy
\* all the supplied filters, whatever the supplied values; with no filter,
\* with every appointment.
C14_Original ==
    resp.op = "listar_citas" =>
        /\ resp.status = 200
        /\ ListaExactamente(resp,
              {id \in DOMAIN citas : Satisface(citas[id], resp.filtros)})

\* Filters whose supplied values are all well formed and none of them 0 or
\* empty.
FiltrosEfectivos ==
    {f \in Filtros : ~FiltroMalformado(f) /\ \A k \in DOMAIN f : SiArg(f, k)}

\* What the code does keep of C14: for filters in FiltrosEfectivos the
\* response is 200 with exactly the appointments that satisfy all of them.
C14_FiltrosEfectivos ==
    (resp.op = "listar_citas" /\ resp.filtros \in FiltrosEfectivos) =>
        /\ resp.status = 200
        /\ ListaExactamente(resp,
              {id \in DOMAIN citas : Satisface(citas[id], resp.filtros)})

\* The failing case of C14: with an appointment stored, GET /citas?id_doctor=0
\* is answered with it, although its id_doctor is not 0.
C14_Witness ==
    /\ resp.op = "listar_citas"
    /\ resp.filtros = [id_doctor |-> 0]
    /\ resp.status = 200
    /\ Len(resp.citas) > 0

\* The table of each kind of record.
TablaDe(clase) ==
    CASE clase = "pacientes" -> pacientes
      [] clase = "doctores" -> doctores
      [] clase = "centros" -> centros

\* The table of each kind of record after the step.
TablaTras(clase) ==
    CASE clase = "pacientes" -> pacientes'
      [] clase = "doctores" -> doctores'
      [] clase = "centros" -> centros'

OpsCrear == {"crear_paciente", "crear_doctor", "crear_centro"}
OpsListar == {"listar_pacientes", "listar_doctores", "listar_centros"}
OpsObtener == {"obtener_paciente", "obtener_doctor", "obtener_centro"}
OpsActualizar == {"actualizar_paciente", "actualizar_doctor", "actualizar_centro"}
OpsEliminar == {"eliminar_paciente", "eliminar_doctor", "eliminar_centro"}
OpsVerificar == {"verificar_paciente", "verificar_doctor", "verificar_centro"}
OpsAdmin ==
    OpsCrear \cup OpsListar \cup OpsObtener \cup OpsActualizar \cup OpsEliminar

\* The caller's user exists and is an administrator.
EsAdmin(uid) == uid \in DOMAIN users /\ users[uid].rol = "admin"

\* The step serves a soft delete that is answered 200: DELETE, or PUT with
\* estado INACTIVO.
SirveBajaLogica ==
    /\ resp' # resp
    /\ \/ resp'.op \in OpsEliminar
       \/ /\ resp'.op \in OpsActualizar
          /\ "estado" \in DOMAIN resp'.data
          /\ resp'.data.estado = "INACTIVO"
    /\ resp'.status = 200

\* The response of a listing without estado lists no INACTIVO record, and
\* that of GET /admin/<clase>/<id> for an INACTIVO record, asked by an
\* administrator, is 200 with the record and its estado INACTIVO.
InactivoSeVe ==
    /\ (resp.op \in OpsListar /\ resp.status = 200
            /\ "estado" \notin DOMAIN resp.args) =>
          \A n \in DOMAIN resp[resp.clase] :
              TablaDe(resp.clase)[resp[resp.clase][n].id].estado # "INACTIVO"
    /\ ( /\ resp.op \in OpsObtener
         /\ EsAdmin(resp.uid)
         /\ resp.id \in DOMAIN TablaDe(resp.clase)
         /\ TablaDe(resp.clase)[resp.id].estado = "INACTIVO" ) =>
          /\ resp.status = 200
          /\ resp[Singular(resp.clase)].id = resp.id
          /\ resp[Singular(resp.clase)].estado = "INACTIVO"

\* C15: a soft delete of a patient, doctor or center (DELETE, or PUT with
\* estado INACTIVO) leaves the record INACTIVO; an INACTIVO record is absent
\* from the listing asked without estado, and GET by its id returns it with
\* status 200 and estado INACTIVO.
C15_BajaLogica ==
    [][ /\ SirveBajaLogica =>
              TablaTras(resp'.clase)[resp'.id].estado = "INACTIVO"
        /\ InactivoSeVe' ]_vars

\* C15's case: patient 1 was soft-deleted and another patient created; the
\* listing without parameters returns the other patient alone.
C15_Witness ==
    /\ resp.op = "listar_pacientes"
    /\ resp.args = SinArgs
    /\ resp.status = 200
    /\ Len(pacientes) = 2
    /\ pacientes[1].estado = "INACTIVO"
    /\ Len(resp.pacientes) = 1
    /\ resp.pacientes[1].id = 2

\* C16: no step removes a patient, doctor or center: every id that has a
\* record has one after the step.
C16_SinBorradoFisico ==
    [][ /\ DOMAIN pacientes \subseteq DOMAIN pacientes'
        /\ DOMAIN doctores \subseteq DOMAIN doctores'
        /\ DOMAIN centros \subseteq DOMAIN centros' ]_vars

\* C16's case: DELETE /admin/doctores/3 was answered 200 for a doctor that
\* had been created, and the doctor is still there.
C16_Witness ==
    /\ resp.op = "eliminar_doctor"
    /\ resp.status = 200
    /\ resp.id = 3
    /\ Len(doctores) = 3
    /\ doctores[3].estado = "INACTIVO"

\* Columns of the records other than the id.
CamposDeRegistro ==
    {"nombre", "telefono", "especialidad", "direccion", "estado"}

\* C17: GET /verify/<clase>/<id> is answered 200 with exists true and the id
\* exactly when a record of that kind with that id exists and is ACTIVO, and
\* 404 otherwise; neither response carries a column of the record.
C17_VerificarMinimo ==
    resp.op \in OpsVerificar =>
        LET tabla == TablaDe(resp.clase)
            activo == resp.id \in DOMAIN tabla
                        /\ tabla[resp.id].estado = "ACTIVO"
        IN  /\ activo => resp.r = [status |-> 200, exists |-> TRUE,
                                   id |-> resp.id]
            /\ ~activo => resp.r.status = 404 /\ resp.r.exists = FALSE
            /\ DOMAIN resp.r \cap CamposDeRegistro = {}

\* C17's case: the doctor exists but is INACTIVO, and the verification of
\* its id was answered 404.
C17_Witness ==
    /\ resp.op = "verificar_doctor"
    /\ resp.id = 1
    /\ resp.r.status = 404
    /\ doctores[1].estado = "INACTIVO"

\* C18: a step that serves a request to an /admin endpoint whose caller does
\* not exist or is not an administrator answers 403 and changes no patient,
\* doctor or center.
C18_SoloAdmin ==
    [][ (resp' # resp /\ resp'.op \in OpsAdmin /\ ~EsAdmin(resp'.uid)) =>
            /\ resp'.status = 403
            /\ UNCHANGED <<pacientes, doctores, centros>> ]_vars

\* C18's case: the secretary's DELETE of an ACTIVO doctor was answered 403
\* and the doctor is still ACTIVO.
C18_Witness ==
    /\ resp.op = "eliminar_doctor"
    /\ resp.uid = 2
    /\ users[2].rol = "secretaria"
    /\ resp.status = 403
    /\ doctores[resp.id].estado = "ACTIVO"

\* No two users have the same username.
UsernamesUnicos ==
    \A i, j \in DOMAIN users :
        users[i].username = users[j].username => i = j

\* C19: POST /auth/register with a username that a user already has is
\* answered 400 and adds no user, and no two users share a username.
C19_UsernameUnico ==
    [][ /\ ( /\ resp' # resp
             /\ resp'.op = "register"
             /\ "username" \in DOMAIN resp'.data
             /\ \E i \in DOMAIN users :
                    users[i].username = resp'.data.username ) =>
                resp'.status = 400 /\ users' = users
        /\ UsernamesUnicos' ]_vars

\* C19's case: a user "eva" was registered and the registration of a second
\* "eva", as administrator, was answered 400.
C19_Witness ==
    /\ resp.op = "register"
    /\ resp.data = [username |-> "eva", password |-> "x", rol |-> "admin"]
    /\ resp.status = 400
    /\ resp.error = "El usuario ya existe"
    /\ Len(users) = 3
    /\ users[3].username = "eva"
    /\ users[3].rol = "paciente"

Roles == {"admin", "medico", "secretaria", "paciente"}

\* C20: every stored user's rol is admin, medico, secretaria or paciente.
C20_Original == \A i \in DOMAIN users : users[i].rol \in Roles

\* What the code does keep of C20: a user registered without rol has rol
\* paciente, and one registered with a rol has that rol, whatever it is.
C20_RolRegistrado ==
    (resp.op = "register" /\ resp.status = 201) =>
        /\ resp.usuario.id = Len(users)
        /\ users[Len(users)].rol = resp.usuario.rol
        /\ resp.usuario.rol =
              IF "rol" \in DOMAIN resp.data THEN resp.data.rol ELSE "paciente"

\* The failing case of C20: a registration with rol superusuario was answered
\* 201 and the user is stored with that rol.
C20_Witness ==
    /\ resp.op = "register"
    /\ resp.status = 201
    /\ users[resp.usuario.id].rol = "superusuario"

\* The statuses of the error taxonomy.
Taxonomia == {400, 401, 403, 404}

\* The response is a success, or an error of the taxonomy with a message.
Manejada(r) ==
    \/ r.status \in {200, 201}
    \/ r.status \in Taxonomia /\ "error" \in DOMAIN r

\* C24: every request to the appointment service, whatever its body and its
\* query parameters, ends with a success or with 400, 401, 403 or 404 and a
\* message, never with an unhandled exception.
C24_Original ==
    /\ resp.op # "ninguna" => Manejada(resp)
    /\ \A s \in Solicitudes : sol[s].pc = "fin" => Manejada(sol[s].resp)

\* What the code does keep of C24: every response but that of GET /citas
\* with a fecha_inicio or fecha_fin that does not parse is a success or an
\* error of the taxonomy with a message.
C24_SalvoFiltroMalformado ==
    /\ (resp.op # "ninguna"
          /\ ~(resp.op = "listar_citas" /\ FiltroMalformado(resp.filtros))) =>
            Manejada(resp)
    /\ \A s \in Solicitudes : sol[s].pc = "fin" => Manejada(sol[s].resp)

\* The failing case of C24: GET /citas?fecha_inicio=20/01/2026 ended with
\* status 500.
C24_Witness ==
    /\ resp.op = "listar_citas"
    /\ resp.filtros = [fecha_inicio |-> "20/01/2026"]
    /\ resp.status = 500

\* An entity the request of thread s names is not ACTIVO.
AlgunoInactivo(s) ==
    \/ ~(sol[s].data.id_paciente \in DOMAIN pacientes
          /\ pacientes[sol[s].data.id_paciente].estado = "ACTIVO")
    \/ ~(sol[s].data.id_doctor \in DOMAIN doctores
          /\ doctores[sol[s].data.id_doctor].estado = "ACTIVO")
    \/ ~(sol[s].data.id_centro \in DOMAIN centros
          /\ centros[sol[s].data.id_centro].estado = "ACTIVO")

\* C26: when an entity a POST /citas has verified is soft-deleted before the
\* request commits, the commit goes ahead all the same: the insert step adds
\* the PROGRAMADA appointment and the request is answered 201.
C26_BajaNoDetectada ==
    [][\A s \in Solicitudes :
          ( /\ sol[s].pc = "insertar"
            /\ sol'[s] # sol[s]
            /\ AlgunoInactivo(s) ) =>
              /\ Len(citas') = Len(citas) + 1
              /\ citas'[Len(citas')].estado = "PROGRAMADA"
              /\ citas'[Len(citas')].id_doctor = sol[s].data.id_doctor
              /\ citas'[Len(citas')].id_paciente = sol[s].data.id_paciente
              /\ citas'[Len(citas')].id_centro = sol[s].data.id_centro
              /\ sol'[s].resp.status = 201]_vars

\* C26's case: the doctor's verification returned 200, the doctor was then
\* soft-deleted, and the request committed a PROGRAMADA appointment for that
\* doctor, INACTIVO at the commit, and was answered 201.
C26_Witness ==
    \E s \in Solicitudes :
        /\ sol[s].pc = "fin"
        /\ sol[s].resp.status = 201
        /\ \E i \in Llamadas(s, "verificar_doctor") :
              sol[s].llamadas[i].resultado = 200
        /\ \E i \in Llamadas(s, "insertar") :
              /\ ~sol[s].llamadas[i].activos.doctor
              /\ sol[s].llamadas[i].activos.paciente
              /\ sol[s].llamadas[i].activos.centro
        /\ citas[sol[s].resp.cita.id].estado = "PROGRAMADA"

\* Row i is an appointment with the doctor and the timestamp that the
\* request of thread s asks for.
MismoHueco(s, i) ==
    /\ citas[i].id_doctor = sol[s].data.id_doctor
    /\ citas[i].fecha.wall = Denota(sol[s].data.fecha).wall

\* The three verifications of the request of thread s returned 200.
VerificacionesOk(s) ==
    \A paso \in PasosVerificar :
        \E i \in Llamadas(s, paso) : sol[s].llamadas[i].resultado = 200

\* C27: a POST /citas, served when its doctor's appointments at its timestamp
\* are all CANCELADA, however many, and there is at least one, is answered 201
\* with a new PROGRAMADA appointment if its three verifications succeed.
C27_CancelarLiberaElHueco ==
    \A s \in Solicitudes :
        ( /\ sol[s].pc = "fin"
          /\ VerificacionesOk(s)
          /\ \E i \in 1 .. sol[s].habia : MismoHueco(s, i)
          /\ \A i \in 1 .. sol[s].habia :
                MismoHueco(s, i) => citas[i].estado = "CANCELADA" ) =>
            /\ sol[s].resp.status = 201
            /\ Len(citas) = sol[s].habia + 1
            /\ citas[Len(citas)].estado = "PROGRAMADA"
            /\ MismoHueco(s, Len(citas))

\* C27's case: the appointment of doctor 2 was cancelled, and the request for
\* the same doctor and timestamp that followed was answered 201.
C27_Witness ==
    \E s \in Solicitudes :
        /\ sol[s].pc = "fin"
        /\ sol[s].resp.status = 201
        /\ sol[s].habia = 1
        /\ sol[s].data.id_doctor = 2
        /\ MismoHueco(s, 1)
        /\ citas[1].estado = "CANCELADA"
        /\ 1 \in canceladas
        /\ citas[2].estado = "PROGRAMADA"

\* C28: every appointment's estado is PROGRAMADA or CANCELADA.
C28_NuncaCompletada ==
    \A id \in DOMAIN citas : citas[id].estado \in {"PROGRAMADA", "CANCELADA"}

\* C28's case: two appointments for different doctors, the second of them
\* cancelled and the first not.
C28_Witness ==
    /\ Len(citas) = 2
    /\ citas[1].id_doctor # citas[2].id_doctor
    /\ citas[1].estado = "PROGRAMADA"
    /\ citas[2].estado = "CANCELADA"
    /\ canceladas = {2}

\* Appointment id names a patient, a doctor or a center that is INACTIVO.
ReferenciaInactivo(id) ==
    \/ /\ citas[id].id_paciente \in DOMAIN pacientes
       /\ pacientes[citas[id].id_paciente].estado = "INACTIVO"
    \/ /\ citas[id].id_doctor \in DOMAIN doctores
       /\ doctores[citas[id].id_doctor].estado = "INACTIVO"
    \/ /\ citas[id].id_centro \in DOMAIN centros
       /\ centros[citas[id].id_centro].estado = "INACTIVO"

\* C29: a step that changes a user, patient, doctor or center changes no
\* appointment; and a PROGRAMADA appointment that names an INACTIVO entity is
\* returned by GET /citas/<id> with status 200 and estado PROGRAMADA, and is
\* cancelled by PUT /citas/<id> with status 200.
C29_IdentidadNoTocaCitas ==
    [][ /\ identidad' # identidad => citas' = citas
        /\ \A id \in DOMAIN citas :
              (citas[id].estado = "PROGRAMADA" /\ ReferenciaInactivo(id)) =>
                /\ SirveCancelar(id) =>
                      resp'.status = 200 /\ citas'[id].estado = "CANCELADA"
                /\ ( /\ resp' # resp
                     /\ resp'.op = "obtener_cita"
                     /\ resp'.cita_id = id ) =>
                      /\ resp'.status = 200
                      /\ resp'.cita.estado = "PROGRAMADA" ]_vars

\* C29's case: GET /citas/<id> returned, as PROGRAMADA, an appointment whose
\* doctor is INACTIVO, and it is PROGRAMADA still.
C29_Witness ==
    /\ resp.op = "obtener_cita"
    /\ resp.status = 200
    /\ resp.cita.estado = "PROGRAMADA"
    /\ citas[resp.cita_id].estado = "PROGRAMADA"
    /\ doctores[citas[resp.cita_id].id_doctor].estado = "INACTIVO"
    /\ pacientes[citas[resp.cita_id].id_paciente].estado = "ACTIVO"

\* The user the handlers resolve from a token: int(get_jwt_identity()).
Portador(token) == ToInt(get_jwt_identity(token))

\* The users whose username and password are those of the body.
Acreditados(data) ==
    {i \in DOMAIN users :
        /\ users[i].username = data.username
        /\ users[i].password = <<"hash", data.password>>}

\* The response of POST /auth/login: 401 and no token when no user has the
\* body's username and password, 200 and a token of that user when one has.
LoginCorrecto ==
    (resp.op = "login" /\ {"username", "password"} \subseteq DOMAIN resp.data) =>
        /\ Acreditados(resp.data) = {} =>
              resp.status = 401 /\ "access_token" \notin DOMAIN resp
        /\ \A i \in Acreditados(resp.data) :
              /\ resp.status = 200
              /\ Portador(resp.access_token) = i
              /\ resp.usuario.id = i

\* The step serves a request that carries the token that the login just
\* answered has issued, to an /admin endpoint.
AdminConTokenRecibido ==
    /\ resp.op = "login"
    /\ resp.status = 200
    /\ resp'.op \in OpsAdmin
    /\ resp'.uid = Portador(resp.access_token)

C30_RegistroAbierto ==
    [][ /\ (resp' # resp /\ resp'.op = "register" /\ resp'.status = 201
              /\ "rol" \in DOMAIN resp'.data) =>
                /\ Len(users') = Len(users) + 1
                /\ users'[Len(users')].rol = resp'.data.rol
        /\ (AdminConTokenRecibido
              /\ resp.usuario.id \notin {1, 2}
              /\ resp.usuario.rol = "admin") =>
                resp'.status \notin {401, 403} ]_vars

\* C30's case: after a registration with rol admin, the login of the new user
\* was answered 200 with a token of its identity, and the user is an
\* administrator for require_admin.
C30_Witness ==
    /\ resp.op = "login"
    /\ resp.status = 200
    /\ resp.usuario = [id |-> 3, username |-> "eva", rol |-> "admin"]
    /\ Portador(resp.access_token) = 3
    /\ users[3].rol = "admin"

\* C21 as the specification states it: every stored patient, doctor and
\* center has estado ACTIVO or INACTIVO.
C21_Original ==
    \A c \in Clases : \A i \in DOMAIN TablaDe(c) :
        TablaDe(c)[i].estado \in EstadosEntidad

\* The response of GET /verify/<clase>/<id> in the state after the step.
VerificarTras(clase, id) ==
    CASE clase = "pacientes" -> verificar_paciente(id)'
      [] clase = "doctores" -> verificar_doctor(id)'
      [] clase = "centros" -> verificar_centro(id)'

\* The ids that GET /admin/<clase> without parameters lists to an
\* administrator in the state after the step.
ListadoTras(clase) ==
    LET r == RespListar("listar", clase, TablaTras(clase), 1, SinArgs)
    IN  {r[clase][n].id : n \in DOMAIN r[clase]}

\* A PUT served with 200: only row id of the table of clase changes, and in
\* it only the columns that the body names, which take the body's values.
ReemplazoParcial(clase, id, data) ==
    LET antes == TablaDe(clase)
        tras == TablaTras(clase)
    IN  /\ DOMAIN tras = DOMAIN antes
        /\ \A i \in DOMAIN antes : i # id => tras[i] = antes[i]
        /\ \A k \in DOMAIN antes[id] :
              tras[id][k] = IF k \in DOMAIN data THEN data[k] ELSE antes[id][k]
        /\ \A c \in Clases \ {clase} : TablaTras(c) = TablaDe(c)
        /\ UNCHANGED <<users, citas>>

\* A PUT with estado ACTIVO on a row that was INACTIVO: the row is in the
\* default listing again and its verify endpoint answers 200.
Restaura(clase, id, data) ==
    ("estado" \in DOMAIN data /\ data.estado = "ACTIVO"
        /\ TablaDe(clase)[id].estado = "INACTIVO") =>
            /\ id \in ListadoTras(clase)
            /\ VerificarTras(clase, id).status = 200

\* C23: an admin PUT on a patient, doctor or center replaces the fields that
\* its body has and leaves the other fields of the record and every other
\* record as they were; a PUT with estado ACTIVO on an INACTIVO record puts it
\* back in the default listing and makes its verify endpoint answer 200.
C23_ReemplazoParcial ==
    [][ (resp' # resp /\ resp'.op \in OpsActualizar /\ resp'.status = 200) =>
          \A c \in Clases, id \in 1 .. MaxRegistros + 1,
             d \in CuerposActualizarAdmin :
                (c = resp'.clase /\ id = resp'.id /\ d = resp'.data) =>
                    ReemplazoParcial(c, id, d) /\ Restaura(c, id, d) ]_vars

\* C23's case: a PUT with only nombre was served on doctor 1, which had been
\* given another estado: the name is the body's, especialidad and estado are
\* as before, and doctor 2 is as it was loaded.
C23_Witness ==
    /\ resp.op = "actualizar_doctor"
    /\ resp.status = 200
    /\ resp.id = 1
    /\ resp.data = [nombre |-> "Bea"]
    /\ doctores[1] = [nombre |-> "Bea", especialidad |-> "Ortodoncia",
                      estado |-> "INACTIVO"]
    /\ doctores[2] = [nombre |-> "Dr. Dos", especialidad |-> "Endodoncia",
                      estado |-> "ACTIVO"]

\* C25 as the specification states it: no call of the client ends the menu
\* loop with an uncaught exception.
C25_Original == cli.menu # "excepcion"

=============================================================================
